---------------------------- MODULE Spec2Model ----------------------------
(***************************************************************************)
(* Model of the reactive collection engine of nionswift:                   *)
(*   DataItemsBinding / DataItemsInContainerBinding (DataItemsBinding.py)  *)
(*   and the counted aggregate of DataGroup (DataGroup.py).                *)
(*                                                                         *)
(* Indices are 0-based as in the Python source; a TLA+ sequence s holds    *)
(* the Python element s[i] at position i + 1.                              *)
(***************************************************************************)
EXTENDS Integers, Sequences, FiniteSets, TLC

VARIABLES
    counted_data_items,     \* DataItemsInContainerBinding.__counted_data_items
    data_items,             \* DataItemsBinding.__data_items (authoritative list)
    filter,                 \* DataItemsBinding.__filter
    sort,                   \* DataItemsBinding.__sort
    change_level,           \* DataItemsBinding.__change_level
    update_mutex,           \* owner of DataItemsBinding._update_mutex
    inserters,              \* DataItemsBinding.inserters (ids of attached listeners)
    removers,               \* DataItemsBinding.removers
    mirror,                 \* list kept by the attached listener
    callback_ok,            \* FALSE once a callback got an index its list cannot take
    settle,                 \* position and locals of the running _update_data_items
    events,                 \* insert/remove events emitted by the running pass
    scopes,                 \* change levels saved at the open "with changes()" blocks
    exc,                    \* an exception is leaving the writer's current call
    snapshot,               \* the list object a reader got from data_items
    counted_display_items,  \* DataGroup.__counted_display_items
    agg_call,               \* the last call on the DataGroup aggregate (kept for the record)
    commute,                \* one multiset of deltas applied to two aggregates in two orders
    groups,                 \* the DataGroups: display items, child groups, counted aggregate
    data_item_state,        \* the fields of one DataItem and the calls it made on its storage
    data_sources,           \* the fields of the BufferedDataSources
    handles,                \* the open "with data_ref()" blocks, innermost last
    item_call,              \* the last call on the item or a data source and how it ended
    computations,           \* the computations and the payloads of their computed items
    source_changes,         \* the change count of one BufferedDataSource and who opened it
    threads,                \* the position and locals of each thread calling into the Binding
    lock_threads,           \* the threads that take the Binding mutex and a ref count mutex
    cache,                  \* the suspendable storage cache of the item and its external store
    downstream,             \* a DataItemsFilterBinding fed by the Binding, and its listener
    exit_steps,             \* the steps of the last _exit_transaction_state and what each left
    content_changes,        \* the data_item_changes scopes of the item and its content event
    replacing               \* the data sources whose payload a thread is replacing

\* the variables of the Binding and of the aggregate of one DataGroup
binding_vars == <<counted_data_items, data_items, filter, sort, change_level, update_mutex,
                  inserters, removers, mirror, callback_ok, settle, events, scopes, exc,
                  snapshot, counted_display_items, agg_call>>

\* the variables of a DataItem and its data sources
item_vars == <<data_item_state, data_sources, handles, item_call>>

\* the variables of the computations
computation_vars == <<computations>>

\* the variables of the threads, of the cache and of the chained Binding
lifecycle_vars == <<exit_steps, content_changes, replacing>>

extension_vars == <<source_changes, threads, lock_threads, cache, downstream, lifecycle_vars>>

document_vars == <<commute, groups, item_vars, computation_vars, extension_vars>>

vars == <<counted_data_items, data_items, filter, sort, change_level, update_mutex,
          inserters, removers, mirror, callback_ok, settle, events, scopes, exc,
          snapshot, counted_display_items, agg_call, document_vars>>

----------------------------------------------------------------------------
(* Bounds of the model *)

MaxCount == 2           \* largest count one item reaches in an aggregate
MaxTotal == 3           \* largest sum of the counts held by the Binding's aggregate
MaxLevel == 2           \* deepest nesting of "with changes()" blocks
MaxRefCount == 3        \* largest data ref count of a data source
MaxChanges == 2         \* most property changes, and most storage calls, in one transaction
MaxModified == 3        \* largest modified_count of the item
MaxGeneration == 3      \* most changes made to one computation

----------------------------------------------------------------------------
(* Items and their attributes *)

None == "None"

\* A, B, C and P carry data of their own; D is derived from P
Items == {"A", "B", "C", "P", "D"}

\* Q and M carry data of their own, and M is also a dependent of Q
DuplicateItems == {"Q", "M"}

\* every data item of the document
Universe == Items \cup DuplicateItems

\* data_item.has_master_data
has_master_data(data_item) == data_item # "D"

\* the dependents directly below an item (data_item.data_items)
child_data_items(container) ==
    CASE container = "P" -> <<"D">>
      [] container = "Q" -> <<"M">>
      [] OTHER -> <<>>

\* data_item.datetime_original, as an ordinal
datetime_original(data_item) ==
    CASE data_item = "A" -> 1
      [] data_item = "B" -> 2
      [] data_item = "C" -> 1
      [] data_item = "P" -> 2
      [] OTHER -> 0

----------------------------------------------------------------------------
(* Sequence helpers (Python list operations) *)

InSeq(x, s) == \E i \in 1..Len(s) : s[i] = x

\* list.index(x): 0-based position of the first occurrence
IndexOf(s, x) == (CHOOSE i \in 1..Len(s) : s[i] = x /\ \A j \in 1..(i-1) : s[j] # x) - 1

\* del s[i]
DelAt(s, i) == SubSeq(s, 1, i) \o SubSeq(s, i + 2, Len(s))

\* s.insert(i, x): an index beyond the end appends
InsertAt(s, i, x) ==
    IF i >= Len(s) THEN Append(s, x)
    ELSE SubSeq(s, 1, i) \o <<x>> \o SubSeq(s, i + 1, Len(s))

NoDuplicates(s) == \A i, j \in 1..Len(s) : s[i] = s[j] => i = j

RECURSIVE SeqSum(_, _)
SeqSum(s, f) == IF s = <<>> THEN 0 ELSE f[Head(s)] + SeqSum(Tail(s), f)


----------------------------------------------------------------------------
(* collections.Counter: a dict that keeps its keys in insertion order *)

EmptyCounter == [keys |-> <<>>, count |-> [x \in Universe |-> 0]]

\* self[elem] = n
CounterSet(c, elem, n) ==
    [keys  |-> IF InSeq(elem, c.keys) THEN c.keys ELSE Append(c.keys, elem),
     count |-> [c.count EXCEPT ![elem] = n]]

\* self.get(elem, 0)
CounterGet(c, elem) == IF InSeq(elem, c.keys) THEN c.count[elem] ELSE 0

\* Counter.update(d): self[elem] = count + self.get(elem, 0) for each entry of d
RECURSIVE CounterUpdateFrom(_, _, _)
CounterUpdateFrom(c, d, i) ==
    IF i > Len(d.keys) THEN c
    ELSE CounterUpdateFrom(CounterSet(c, d.keys[i], d.count[d.keys[i]] + CounterGet(c, d.keys[i])),
                           d, i + 1)

\* Counter.subtract(d): self[elem] = self.get(elem, 0) - count for each entry of d
RECURSIVE CounterSubtractFrom(_, _, _)
CounterSubtractFrom(c, d, i) ==
    IF i > Len(d.keys) THEN c
    ELSE CounterSubtractFrom(CounterSet(c, d.keys[i], CounterGet(c, d.keys[i]) - d.count[d.keys[i]]),
                             d, i + 1)

\* c += Counter(): drops every entry whose count is not positive
CounterKeepPositive(c) ==
    [keys  |-> SelectSeq(c.keys, LAMBDA x : c.count[x] > 0),
     count |-> [x \in Universe |-> IF c.count[x] > 0 THEN c.count[x] ELSE 0]]

\* the Counter built from one item: collections.Counter([item])
CounterOf(item) == CounterSet(EmptyCounter, item, 1)

CounterTotal(c) == SeqSum(c.keys, c.count)

----------------------------------------------------------------------------
(* DataGroup: the counted aggregate *)

update_counted_display_items(c, d) == CounterUpdateFrom(c, d, 1)

\* mutant: the strip after the subtraction is missing
subtract_without_strip(c, d) == CounterSubtractFrom(c, d, 1)

subtract_counted_display_items(c, d) == CounterKeepPositive(CounterSubtractFrom(c, d, 1))

----------------------------------------------------------------------------
(* The proposed list: lines 84-102 of _update_data_items *)

\* DataGroup.get_flat_data_item_generator_in_container: each child, then the
\* items below it, depth first
RECURSIVE get_flat_data_item_generator_in_container(_)
RECURSIVE FlatOver(_)
FlatOver(s) ==
    IF s = <<>> THEN <<>>
    ELSE <<Head(s)>> \o get_flat_data_item_generator_in_container(Head(s)) \o FlatOver(Tail(s))

get_flat_data_item_generator_in_container(container) ==
    FlatOver(child_data_items(container))

\* the flat list of the Binding's container, in definition order
container_flat_data_items == <<"A", "B", "P", "D", "C", "Q", "M">>

Sorts == {None, "sort_natural", "sort_by_date_desc"}

Filters == {None, "exclude_C"}

\* sort_key(data_item) of the function pair returned by self.sort(self.container)
sort_key(s, data_item) ==
    IF s = "sort_natural" THEN IndexOf(container_flat_data_items, data_item)
    ELSE datetime_original(data_item)

\* the reverse flag returned by self.sort(self.container)
sort_reverse(s) == s = "sort_by_date_desc"

\* list.sort(key, reverse) is stable: x goes before the first element it
\* strictly precedes
SortInsert(sorted, x, s) ==
    LET precedes(y) == IF sort_reverse(s) THEN sort_key(s, x) > sort_key(s, y)
                       ELSE sort_key(s, x) < sort_key(s, y)
        hits == {i \in 1..Len(sorted) : precedes(sorted[i])}
    IN  IF hits = {} THEN Append(sorted, x)
        ELSE InsertAt(sorted, (CHOOSE i \in hits : \A j \in hits : i <= j) - 1, x)

RECURSIVE ListSort(_, _, _)
ListSort(done, rest, s) ==
    IF rest = <<>> THEN done ELSE ListSort(SortInsert(done, Head(rest), s), Tail(rest), s)

\* self.__filter(data_item)
filter_accepts(f, data_item) ==
    IF f = "exclude_C" THEN data_item # "C" ELSE TRUE

\* lines 86-89: the keys of the master aggregate that have master data
master_data_items(counted) == SelectSeq(counted.keys, has_master_data)

\* lines 91-93
sorted_master_data_items(counted, s) ==
    IF s # None THEN ListSort(<<>>, master_data_items(counted), s)
    ELSE master_data_items(counted)

\* lines 96-102: filter, then each survivor followed by its dependents
RECURSIVE ExpandFiltered(_, _)
ExpandFiltered(master, f) ==
    IF master = <<>> THEN <<>>
    ELSE (IF f = None \/ filter_accepts(f, Head(master))
          THEN <<Head(master)>> \o get_flat_data_item_generator_in_container(Head(master))
          ELSE <<>>) \o ExpandFiltered(Tail(master), f)

proposed_data_items(counted, f, s) == ExpandFiltered(sorted_master_data_items(counted, s), f)

\* mutant: the lists go to the loop unchecked
uniqueness_unchecked(counted, f, s) == TRUE

\* lines 105-107: the three uniqueness assertions
uniqueness_asserts(counted, f, s) ==
    /\ NoDuplicates(counted.keys)
    /\ NoDuplicates(sorted_master_data_items(counted, s))
    /\ NoDuplicates(proposed_data_items(counted, f, s))

----------------------------------------------------------------------------
(* The reconciliation loop: lines 108-149 of _update_data_items *)

\* start is the authoritative list when the pass began and trigger the call
\* that began it (both kept for the record only)
NoSettle == [pc |-> "none", old |-> <<>>, new |-> <<>>, index |-> 0, start |-> <<>>,
             trigger |-> "none"]

Event(op, data_item, index) == [op |-> op, item |-> data_item, index |-> index]

StepResult(p, dl, evs) == [p |-> p, dl |-> dl, evs |-> evs]

\* a failed assert leaves the loop at once
AssertionFailed(p, dl) == StepResult([p EXCEPT !.pc = "abort"], dl, <<>>)

\* mutant: compares the old item with the new item instead of searching the new list
stale_at_index_mismatch(p) == p.index < Len(p.old) /\ p.old[p.index + 1] # p.new[p.index + 1]

\* line 111: the old item at the current index is not in the new list
stale_at_index(p) == p.index < Len(p.old) /\ ~InSeq(p.old[p.index + 1], p.new)

\* lines 112-117 and 144-149: remove the old item at the current index
remove_at_index(p, dl, next_pc) ==
    LET data_item_to_remove == p.old[p.index + 1]
    IN  IF ~InSeq(data_item_to_remove, dl) THEN AssertionFailed(p, dl)
        ELSE StepResult([p EXCEPT !.pc = next_pc, !.old = DelAt(p.old, p.index)],
                        DelAt(dl, p.index),
                        <<Event("remove", data_item_to_remove, p.index)>>)

\* mutant: the removers are told the current index instead of old_index
remove_for_move_wrong_index(p, dl, old_index) ==
    LET data_item == p.new[p.index + 1]
    IN  IF ~InSeq(data_item, dl) THEN AssertionFailed(p, dl)
        ELSE StepResult([p EXCEPT !.pc = "L130", !.old = DelAt(p.old, old_index)],
                        DelAt(dl, old_index),
                        <<Event("remove", data_item, p.index)>>)

\* lines 124-128: the first half of a move, remove at old_index
remove_for_move(p, dl, old_index) ==
    LET data_item == p.new[p.index + 1]
    IN  IF ~InSeq(data_item, dl) THEN AssertionFailed(p, dl)
        ELSE StepResult([p EXCEPT !.pc = "L130", !.old = DelAt(p.old, old_index)],
                        DelAt(dl, old_index),
                        <<Event("remove", data_item, old_index)>>)

\* mutant: both insert statements go to the authoritative list, none to the copy
insert_at_index_twice(p, dl) ==
    LET data_item == p.new[p.index + 1]
    IN  IF InSeq(data_item, dl) THEN AssertionFailed(p, dl)
        ELSE StepResult([p EXCEPT !.pc = "L111", !.index = p.index + 1],
                        InsertAt(InsertAt(dl, p.index, data_item), p.index, data_item),
                        <<Event("insert", data_item, p.index)>>)

\* mutant: the inserters are told the index after the one inserted at
insert_at_index_reports_next(p, dl) ==
    LET data_item == p.new[p.index + 1]
    IN  IF InSeq(data_item, dl) THEN AssertionFailed(p, dl)
        ELSE StepResult([p EXCEPT !.pc = "L111", !.index = p.index + 1,
                                  !.old = InsertAt(p.old, p.index, data_item)],
                        InsertAt(dl, p.index, data_item),
                        <<Event("insert", data_item, p.index + 1)>>)

\* lines 129-133 and 136-141: insert the new item at the current index
insert_at_index(p, dl) ==
    LET data_item == p.new[p.index + 1]
    IN  IF InSeq(data_item, dl) THEN AssertionFailed(p, dl)
        ELSE StepResult([p EXCEPT !.pc = "L111", !.index = p.index + 1,
                                  !.old = InsertAt(p.old, p.index, data_item)],
                        InsertAt(dl, p.index, data_item),
                        <<Event("insert", data_item, p.index)>>)

\* mutant: the tail loop stops one element early
tail_remaining_off_by_one(p) == p.index + 1 < Len(p.old)

\* line 143: the tail loop condition
tail_remaining(p) == p.index < Len(p.old)

\* mutant: re-inserts an item that is already in place
needs_move_always(index, old_index) == index <= old_index

\* line 123: the item is already in the old list, but further down
needs_move(index, old_index) == index < old_index

\* _update_data_items from position p.pc up to and including the next event,
\* or up to the end of the pass ("L150") when no event is left
RECURSIVE RunToEvent(_, _)
RunToEvent(p, dl) ==
    CASE p.pc = "L111" ->
            IF p.index >= Len(p.new) THEN RunToEvent([p EXCEPT !.pc = "L143"], dl)
            ELSE IF stale_at_index(p) THEN remove_at_index(p, dl, "L119")
            ELSE RunToEvent([p EXCEPT !.pc = "L119"], dl)
      [] p.pc = "L119" ->
            IF InSeq(p.new[p.index + 1], p.old)
            THEN LET old_index == IndexOf(p.old, p.new[p.index + 1])
                 IN  IF ~(p.index <= old_index) THEN AssertionFailed(p, dl)
                     ELSE IF needs_move(p.index, old_index) THEN remove_for_move(p, dl, old_index)
                     ELSE RunToEvent([p EXCEPT !.pc = "L111", !.index = p.index + 1], dl)
            ELSE insert_at_index(p, dl)
      [] p.pc = "L130" -> insert_at_index(p, dl)
      [] p.pc = "L143" ->
            IF tail_remaining(p) THEN remove_at_index(p, dl, "L143")
            ELSE StepResult([p EXCEPT !.pc = "L150"], dl, <<>>)
      [] OTHER -> StepResult(p, dl, <<>>)

----------------------------------------------------------------------------
(* Listener callbacks stored in inserters / removers *)

\* the inserter of listener "m": list.insert(before_index, data_item)
listener_inserted(m, data_item, before_index) == InsertAt(m, before_index, data_item)

\* the remover of listener "m": del list[index]
listener_removed(m, data_item, index) ==
    IF index < Len(m) THEN DelAt(m, index) ELSE m

\* what the callback needs of its own list to apply the event
callback_applicable(m, ev) ==
    IF ev.op = "remove"
    THEN ev.index < Len(m) /\ m[ev.index + 1] = ev.item
    ELSE ev.index <= Len(m) /\ ~InSeq(ev.item, m)

\* lines 116-117, 127-128, 132-133, 139-140, 148-149: call every registered callback
deliver(m, ev, ins, rem) ==
    IF ev.op = "remove"
    THEN (IF "m" \in rem THEN listener_removed(m, ev.item, ev.index) ELSE m)
    ELSE (IF "m" \in ins THEN listener_inserted(m, ev.item, ev.index) ELSE m)

----------------------------------------------------------------------------
(* State after construction: DataItemsBinding.__init__, lines 19-27 and 197-200 *)

\* zeroed: the call brought some count exactly to 0; clamped: below 0
NoCall == [op |-> "none", zeroed |-> FALSE, clamped |-> FALSE]

NoSnapshot == [taken |-> FALSE, alias |-> FALSE, list |-> <<>>, mid |-> FALSE]

\* the threads that call into one Binding or one data source
Threads == {"T1", "T2"}

\* what the last _begin_changes or _end_changes did; misuse: the change count
\* was positive and held by another thread when the call was made
NoChangesCall == [op |-> "none", thread |-> None, misuse |-> FALSE, warned |-> FALSE,
                  raised |-> FALSE, before |-> 0, fired |-> FALSE]

\* BufferedDataSource.__init__, lines 175-178: no change scope is open; open
\* counts the "with _changes()" blocks each thread is in
NoSourceChanges ==
    [change_count |-> 0, change_thread |-> None, change_changed |-> FALSE,
     open |-> [t \in Threads |-> 0], call |-> NoChangesCall]

\* a thread between two calls on the Binding: depth counts the change scopes
\* it has open, local is the change level its current statement has loaded or
\* stored, pass the locals of the _update_data_items it runs and emitted the
\* number of events that pass has sent
IdleThread == [pc |-> "idle", op |-> "none", local |-> 0, depth |-> 0, pass |-> NoSettle,
               emitted |-> 0]

\* a thread that holds no lock and waits for none; context is where its call
\* on the data source returns to and acquired the data refs it has taken
IdleLockThread == [pc |-> "idle", held |-> {}, wants |-> None, context |-> "idle",
                   op |-> "none", acquired |-> 0]

\* the keys and the values written to the cache; value 0 stands for "no entry"
Keys == {"k1", "k2"}

Values == {1, 2}

NoCacheCall == [op |-> "none", key |-> None, value |-> 0, spilled |-> {}]

\* Cache.SuspendableCache(storage_cache), line 936: nothing is shadowed and the
\* external store holds no value. Kept for the record: latest, the last value
\* written to each key; dirty, the keys written since suspend_cache; frozen,
\* the external store as it was at suspend_cache
NoCache == [suspended |-> FALSE, shadow |-> [k \in Keys |-> 0], store |-> [k \in Keys |-> 0],
            latest |-> [k \in Keys |-> 0], dirty |-> {}, frozen |-> [k \in Keys |-> 0],
            call |-> NoCacheCall]

\* DataItemsFilterBinding.__init__, lines 154-159, and the list of its listener
NoDownstream == [master_data_items |-> <<>>, data_items |-> <<>>, change_level |-> 0,
                 filter |-> None, settle |-> NoSettle, events |-> <<>>, mirror |-> <<>>,
                 callback_ok |-> TRUE]

\* DataItem.__init__, lines 821-823: no scope open, nothing to report
NoContentChanges ==
    [change_count |-> 0, open |-> [t \in Threads |-> 0], content_changed |-> FALSE,
     notified |-> FALSE, fired |-> 0,
     call |-> [op |-> "none", outermost |-> FALSE, fired |-> FALSE]]

InitExtension ==
    /\ source_changes = NoSourceChanges
    /\ threads = [t \in Threads |-> IdleThread]
    /\ lock_threads = [t \in Threads |-> IdleLockThread]
    /\ cache = NoCache
    /\ downstream = NoDownstream
    /\ exit_steps = <<>>
    /\ content_changes = NoContentChanges
    /\ replacing = {}

InitBinding ==
    /\ counted_data_items = EmptyCounter
    /\ data_items = <<>>
    /\ filter = None
    /\ sort = None
    /\ change_level = 0
    /\ update_mutex = "free"
    /\ inserters = {"m"}
    /\ removers = {"m"}
    /\ mirror = <<>>
    /\ callback_ok = TRUE
    /\ settle = NoSettle
    /\ events = <<>>
    /\ scopes = <<>>
    /\ exc = FALSE
    /\ snapshot = NoSnapshot
    /\ counted_display_items = EmptyCounter
    /\ agg_call = NoCall
    /\ InitExtension

NoCommute == [deltas |-> <<>>, order |-> <<>>, done |-> 0,
              first |-> EmptyCounter, second |-> EmptyCounter,
              first_clamped |-> FALSE, second_clamped |-> FALSE]

\* DataGroup.__init__, lines 85-94, for each group
NoGroups ==
    [g \in {"R", "G", "H"} |->
        [display_items |-> <<>>, data_groups |-> <<>>, counted_display_items |-> EmptyCounter]]

SourceNames == {"S1", "S2"}

\* a DataItem read from its storage (read_from_dict, lines 1011-1023): it has
\* a persistent object context and nothing is waiting to be written
StoredItem ==
    [in_transaction_state |-> FALSE, pending_write |-> FALSE, modified_count |-> 0,
     write_delay_modified_count |-> 0, write_delay_data_changed |-> FALSE,
     context |-> TRUE, write_delayed |-> FALSE, writes |-> <<>>,
     changes |-> [property |-> 0, metadata |-> FALSE, data |-> FALSE]]

\* a BufferedDataSource read from its storage (read_from_dict, lines 258-299):
\* the payload is on disk only and can be unloaded again
StoredSource ==
    [attached |-> TRUE, closed |-> FALSE, data_ref_count |-> 0, payload |-> "unloaded",
     dam_ref_count |-> 0, unloadable |-> TRUE, held |-> 0, load_failed |-> FALSE,
     appended_in_transaction |-> FALSE]

\* BufferedDataSource(data), lines 144-200: the payload is given inline and the
\* data source belongs to no item yet
NewSource ==
    [attached |-> FALSE, closed |-> FALSE, data_ref_count |-> 0, payload |-> "valid",
     dam_ref_count |-> 0, unloadable |-> FALSE, held |-> 0, load_failed |-> FALSE,
     appended_in_transaction |-> FALSE]

NoItemCall == [op |-> "none", source |-> None, raised |-> FALSE, before |-> 0]

ComputationNames == {"K1", "K2"}

\* a computation without an expression, set on an item that holds its original
\* data (payload 0); payload n > 0 is the result of the n-th expression
NoComputation ==
    [generation |-> 0, valid |-> FALSE, needs_update |-> FALSE, error_text |-> None,
     data |-> 0, op |-> "none", result |-> <<>>, raised |-> FALSE, before |-> 0,
     had_error |-> FALSE]

InitItem ==
    /\ data_item_state = StoredItem
    /\ data_sources = [s \in SourceNames |-> StoredSource]
    /\ handles = <<>>
    /\ item_call = NoItemCall
    /\ computations = [k \in ComputationNames |-> NoComputation]

Init ==
    /\ InitBinding
    /\ commute = NoCommute
    /\ groups = NoGroups
    /\ InitItem

\* the writer thread is between two calls
WriterIdle == settle.pc = "none" /\ ~exc

\* mutant: the block is entered without waiting for the mutex
mutex_not_awaited(thread) == TRUE

\* "with self._update_mutex": the RLock is free or already held by the thread
mutex_available(thread) == update_mutex \in {"free", thread}

\* mutant: the change level is not consulted
update_never_suppressed(level) == FALSE

\* line 81: _update_data_items returns at once inside a change scope
update_suppressed(level) == level > 0

\* _update_data_items, lines 80-108: returns when a change scope is open, else
\* takes the mutex, builds the proposed list and enters the loop
update_data_items_call(level, counted, f, s, trigger) ==
    IF update_suppressed(level)
    THEN UNCHANGED <<settle, update_mutex, events>>
    ELSE /\ mutex_available("writer")
         /\ update_mutex' = "writer"
         /\ settle' = [pc    |-> IF uniqueness_asserts(counted, f, s) THEN "L111" ELSE "abort",
                       old   |-> data_items,
                       new   |-> proposed_data_items(counted, f, s),
                       index |-> 0,
                       start |-> data_items,
                       trigger |-> trigger]
         /\ events' = <<>>

\* lines 224-225: self.__counted_data_items.update(counted_data_items)
\* mutant: dict.update, which replaces the counts, in place of Counter.update
update_replaces_counts(c, d) ==
    [keys  |-> c.keys \o SelectSeq(d.keys, LAMBDA x : ~InSeq(x, c.keys)),
     count |-> [x \in Universe |-> IF InSeq(x, d.keys) THEN d.count[x] ELSE c.count[x]]]

update_counted_data_items(c, d) == CounterUpdateFrom(c, d, 1)

\* lines 230-232: subtract, then strip the empty items
subtract_counted_data_items(c, d) == CounterKeepPositive(CounterSubtractFrom(c, d, 1))

\* update_counted_data_items, lines 223-226
UpdateCountedDataItems(item) ==
    /\ WriterIdle
    /\ mutex_available("writer")
    /\ counted_data_items.count[item] < MaxCount
    /\ CounterTotal(counted_data_items) < MaxTotal
    /\ counted_data_items' = update_counted_data_items(counted_data_items, CounterOf(item))
    /\ update_data_items_call(change_level, counted_data_items', filter, sort, "delta")
    /\ UNCHANGED <<data_items, filter, sort, change_level, inserters, removers, mirror,
                   callback_ok, scopes, exc, snapshot, counted_display_items, agg_call,
                   document_vars>>

\* subtract_counted_data_items, lines 229-233
SubtractCountedDataItems(item) ==
    /\ WriterIdle
    /\ mutex_available("writer")
    /\ counted_data_items' = subtract_counted_data_items(counted_data_items, CounterOf(item))
    /\ update_data_items_call(change_level, counted_data_items', filter, sort, "delta")
    /\ UNCHANGED <<data_items, filter, sort, change_level, inserters, removers, mirror,
                   callback_ok, scopes, exc, snapshot, counted_display_items, agg_call,
                   document_vars>>

\* __set_filter, lines 61-64
SetFilter(f) ==
    /\ WriterIdle
    /\ mutex_available("writer")
    /\ filter' = f
    /\ update_data_items_call(change_level, counted_data_items, filter', sort, "filter")
    /\ UNCHANGED <<counted_data_items, data_items, sort, change_level, inserters, removers,
                   mirror, callback_ok, scopes, exc, snapshot,
                   counted_display_items, agg_call,
                   document_vars>>

\* __set_sort, lines 52-55
SetSort(s) ==
    /\ WriterIdle
    /\ mutex_available("writer")
    /\ sort' = s
    /\ update_data_items_call(change_level, counted_data_items, filter, sort', "sort")
    /\ UNCHANGED <<counted_data_items, data_items, filter, change_level, inserters, removers,
                   mirror, callback_ok, scopes, exc, snapshot,
                   counted_display_items, agg_call,
                   document_vars>>

\* one more stretch of the loop of _update_data_items, with its callbacks
SettleStep ==
    /\ settle.pc \in {"L111", "L119", "L130", "L143"}
    /\ LET r == RunToEvent(settle, data_items)
       IN  /\ settle' = r.p
           /\ data_items' = r.dl
           /\ events' = events \o r.evs
           /\ IF r.evs = <<>>
              THEN UNCHANGED <<mirror, callback_ok>>
              ELSE /\ mirror' = deliver(mirror, r.evs[1], inserters, removers)
                   /\ callback_ok' = (callback_ok /\ callback_applicable(mirror, r.evs[1]))
    /\ UNCHANGED <<counted_data_items, filter, sort, change_level, update_mutex, inserters,
                   removers, scopes, exc, snapshot, counted_display_items, agg_call,
                   document_vars>>

\* the end of the "with self._update_mutex" block of _update_data_items
SettleReturn ==
    /\ settle.pc \in {"L150", "abort"}
    /\ settle' = NoSettle
    /\ events' = <<>>
    /\ update_mutex' = "free"
    /\ exc' = (settle.pc = "abort")
    /\ UNCHANGED <<counted_data_items, data_items, filter, sort, change_level, inserters,
                   removers, mirror, callback_ok, scopes, snapshot, counted_display_items, agg_call,
                   document_vars>>

\* begin_change, lines 29-30
begin_change(level) == level + 1

\* end_change, lines 32-35: the new level; the settle action runs when it is 0
end_change(level) == level - 1

\* mutant: __exit__ leaves the level alone when the body raised
exit_skips_end_change_on_error(raised) == ~raised

\* ChangeTracker.__exit__, lines 45-46: end_change, whether or not the body raised
exit_calls_end_change(raised) == TRUE

\* "with binding.changes():" is entered: ChangeTracker.__enter__, lines 42-44
ChangesEnter ==
    /\ WriterIdle
    /\ change_level < MaxLevel
    /\ change_level' = begin_change(change_level)
    /\ scopes' = Append(scopes, change_level)
    /\ UNCHANGED <<counted_data_items, data_items, filter, sort, update_mutex, inserters,
                   removers, mirror, callback_ok, settle, events, exc, snapshot,
                   counted_display_items, agg_call,
                   document_vars>>

\* the innermost "with binding.changes():" block is left: ChangeTracker.__exit__
ChangesLeave(raised) ==
    /\ Len(scopes) > 0
    /\ scopes' = SubSeq(scopes, 1, Len(scopes) - 1)
    /\ IF exit_calls_end_change(raised)
       THEN /\ change_level' = end_change(change_level)
            /\ IF change_level' = 0
               THEN update_data_items_call(change_level', counted_data_items, filter, sort,
                                           "end_change")
               ELSE UNCHANGED <<settle, update_mutex, events>>
       ELSE UNCHANGED <<change_level, settle, update_mutex, events>>
    /\ UNCHANGED <<counted_data_items, data_items, filter, sort, inserters, removers,
                   mirror, callback_ok, snapshot, counted_display_items, agg_call,
                   document_vars>>

\* the body of the block completes
ChangesExit == WriterIdle /\ exc' = FALSE /\ ChangesLeave(FALSE)

\* the body of the innermost block raises: the exception leaves the block through
\* __exit__ and is caught by the caller once the call made by __exit__ has returned
ChangesExitRaised == WriterIdle /\ exc' = (change_level = 1) /\ ChangesLeave(TRUE)

\* the Binding driven by single calls: every call settles before the next
Next ==
    \/ \E item \in Items : UpdateCountedDataItems(item)
    \/ \E item \in Items : SubtractCountedDataItems(item)
    \/ \E f \in Filters : SetFilter(f)
    \/ \E s \in Sorts : SetSort(s)
    \/ SettleStep
    \/ SettleReturn

Spec == Init /\ [][Next]_vars

\* the items of the container bound in SpecBatch
BatchItems == {"A", "C", "P", "D"}

\* the Binding driven by calls inside and outside "with changes()" blocks
NextBatch ==
    \/ \E item \in BatchItems : UpdateCountedDataItems(item)
    \/ \E item \in BatchItems : SubtractCountedDataItems(item)
    \/ \E f \in Filters : SetFilter(f)
    \/ \E s \in Sorts : SetSort(s)
    \/ SettleStep
    \/ SettleReturn
    \/ ChangesEnter
    \/ ChangesExit
    \/ ChangesExitRaised

SpecBatch == Init /\ [][NextBatch]_vars

----------------------------------------------------------------------------
(* A reader on another thread: the data_items property, lines 69-72 *)

\* mutant: the property hands out the list object itself
return_data_items_itself(list) == [alias |-> TRUE, list |-> list]

\* copy.copy(self.__data_items): a new list object with the same elements
copy_data_items(list) == [alias |-> FALSE, list |-> list]

\* __get_data_items: the copy is taken inside "with self._update_mutex"
GetDataItems ==
    /\ ~snapshot.taken
    /\ mutex_available("reader")
    /\ snapshot' = [taken |-> TRUE,
                    alias |-> copy_data_items(data_items).alias,
                    list  |-> copy_data_items(data_items).list,
                    mid   |-> settle.pc # "none"]
    /\ UNCHANGED <<counted_data_items, data_items, filter, sort, change_level, update_mutex,
                   inserters, removers, mirror, callback_ok, settle, events, scopes, exc,
                   counted_display_items, agg_call,
                   document_vars>>

\* the reader empties the list it was given ("del items[:]") and drops it
ReaderMutates ==
    /\ snapshot.taken
    /\ snapshot' = NoSnapshot
    /\ data_items' = IF snapshot.alias THEN <<>> ELSE data_items
    /\ UNCHANGED <<counted_data_items, filter, sort, change_level, update_mutex, inserters,
                   removers, mirror, callback_ok, settle, events, scopes, exc, counted_display_items, agg_call,
                   document_vars>>

NextReader ==
    \/ \E item \in BatchItems : UpdateCountedDataItems(item)
    \/ \E item \in BatchItems : SubtractCountedDataItems(item)
    \/ \E f \in Filters : SetFilter(f)
    \/ \E s \in Sorts : SetSort(s)
    \/ SettleStep
    \/ SettleReturn
    \/ GetDataItems
    \/ ReaderMutates

\* the Binding with one writer thread and one reader thread, no change scopes
SpecReader == Init /\ [][NextReader]_vars

----------------------------------------------------------------------------
(* The DataGroup aggregate driven by the deltas of its items and child groups *)

\* the display items of the group and of its child groups
GroupItems == {"A", "B", "C"}

\* the deltas a group receives: Counters of one or two items, counts 1..MaxCount
DeltaCounters ==
    {CounterSet(EmptyCounter, x, n) : x \in GroupItems, n \in 1..MaxCount}
    \cup {CounterSet(CounterSet(EmptyCounter, xy[1], nm[1]), xy[2], nm[2]) :
            xy \in {p \in GroupItems \X GroupItems : p[1] # p[2]},
            nm \in (1..MaxCount) \X (1..MaxCount)}

\* DataGroup.update_counted_display_items, lines 178-179
DataGroupUpdate(d) ==
    /\ \A x \in Items : CounterGet(counted_display_items, x) + d.count[x] <= MaxCount
    /\ counted_display_items' = update_counted_display_items(counted_display_items, d)
    /\ agg_call' = [op |-> "update", zeroed |-> FALSE, clamped |-> FALSE]
    /\ UNCHANGED <<counted_data_items, data_items, filter, sort, change_level, update_mutex,
                   inserters, removers, mirror, callback_ok, settle, events, scopes, exc,
                   snapshot, document_vars>>

\* DataGroup.subtract_counted_display_items, lines 181-183
DataGroupSubtract(d) ==
    /\ counted_display_items' = subtract_counted_display_items(counted_display_items, d)
    /\ agg_call' = [op      |-> "subtract",
                    zeroed  |-> \E x \in Items : /\ d.count[x] > 0
                                                 /\ CounterGet(counted_display_items, x) = d.count[x],
                    clamped |-> \E x \in Items : CounterGet(counted_display_items, x) < d.count[x]]
    /\ UNCHANGED <<counted_data_items, data_items, filter, sort, change_level, update_mutex,
                   inserters, removers, mirror, callback_ok, settle, events, scopes, exc,
                   snapshot, document_vars>>

NextAggregate ==
    \/ \E d \in DeltaCounters : DataGroupUpdate(d)
    \/ \E d \in DeltaCounters : DataGroupSubtract(d)

SpecAggregate == Init /\ [][NextAggregate]_vars

----------------------------------------------------------------------------
(* One multiset of deltas from several sources, applied in two orders *)

\* the items the sources contribute
CommuteItems == {"A", "B"}

\* a delta of one source: an add or a subtract of 1..MaxCount of one item
SignedDeltas ==
    {[op |-> o, delta |-> CounterSet(EmptyCounter, x, n)] :
        o \in {"update", "subtract"}, x \in CommuteItems, n \in 1..MaxCount}

\* the orders in which three deltas can arrive
Orders == {<<1, 2, 3>>, <<1, 3, 2>>, <<2, 1, 3>>, <<2, 3, 1>>, <<3, 1, 2>>, <<3, 2, 1>>}

\* lines 223-225 and 229-232: one delta applied to the aggregate c
apply_delta(c, sd) ==
    IF sd.op = "update" THEN update_counted_data_items(c, sd.delta)
    ELSE subtract_counted_data_items(c, sd.delta)

\* the subtract sd takes more from c than c holds
exceeds(c, sd) ==
    sd.op = "subtract" /\ \E x \in Items : sd.delta.count[x] > CounterGet(c, x)

InitCommute ==
    /\ InitBinding
    /\ groups = NoGroups
    /\ InitItem
    /\ commute \in {[NoCommute EXCEPT !.deltas = ds, !.order = o] :
                        ds \in SignedDeltas \X SignedDeltas \X SignedDeltas, o \in Orders}

\* the next delta of each order reaches its aggregate
CommuteApply ==
    /\ commute.done < Len(commute.deltas)
    /\ LET k  == commute.done + 1
           d1 == commute.deltas[k]
           d2 == commute.deltas[commute.order[k]]
       IN  commute' = [commute EXCEPT
                          !.done = k,
                          !.first = apply_delta(commute.first, d1),
                          !.second = apply_delta(commute.second, d2),
                          !.first_clamped = @ \/ exceeds(commute.first, d1),
                          !.second_clamped = @ \/ exceeds(commute.second, d2)]
    /\ UNCHANGED <<binding_vars, extension_vars, groups, item_vars, computation_vars>>

NextCommute == CommuteApply

SpecCommute == InitCommute /\ [][NextCommute]_vars

----------------------------------------------------------------------------
(* A hierarchy of DataGroups *)

GroupNames == {"R", "G", "H"}

\* the display item put into the groups
DisplayItems == {"A"}

\* the group that holds c in its data_groups, None for a group held by no one
container_of(c) ==
    IF \E p \in GroupNames : InSeq(c, groups[p].data_groups)
    THEN CHOOSE p \in GroupNames : InSeq(c, groups[p].data_groups)
    ELSE None

\* g is p or lies below p
RECURSIVE IsWithin(_, _)
IsWithin(g, p) ==
    \/ g = p
    \/ container_of(g) # None /\ IsWithin(container_of(g), p)

UnchangedButGroups ==
    UNCHANGED <<binding_vars, extension_vars, commute, item_vars, computation_vars>>

\* DataGroup.insert_display_item, lines 124-134
insert_display_item(g, before_index, display_item) ==
    /\ ~InSeq(display_item, groups[g].display_items)
    /\ CounterGet(groups[g].counted_display_items, display_item) < MaxCount
    /\ groups' = [groups EXCEPT
            ![g].display_items = InsertAt(@, before_index, display_item),
            ![g].counted_display_items =
                update_counted_display_items(@, CounterOf(display_item))]
    /\ UnchangedButGroups

\* DataGroup.remove_display_item, lines 136-145
remove_display_item(g, display_item) ==
    /\ InSeq(display_item, groups[g].display_items)
    /\ groups' = [groups EXCEPT
            ![g].display_items = DelAt(@, IndexOf(@, display_item)),
            ![g].counted_display_items =
                subtract_counted_display_items(@, CounterOf(display_item))]
    /\ UnchangedButGroups

\* DataGroup.insert_data_group, lines 153-157, with __insert_data_group, 167-168
insert_data_group(g, before_index, data_group) ==
    /\ container_of(data_group) = None
    /\ ~IsWithin(g, data_group)
    /\ \A x \in DisplayItems :
            CounterGet(groups[g].counted_display_items, x)
                + CounterGet(groups[data_group].counted_display_items, x) <= MaxCount
    /\ groups' = [groups EXCEPT
            ![g].data_groups = InsertAt(@, before_index, data_group),
            ![g].counted_display_items =
                update_counted_display_items(@, groups[data_group].counted_display_items)]
    /\ UnchangedButGroups

\* DataGroup.remove_data_group, lines 159-163, with __remove_data_group, 171-172
remove_data_group(g, data_group) ==
    /\ InSeq(data_group, groups[g].data_groups)
    /\ groups' = [groups EXCEPT
            ![g].data_groups = DelAt(@, IndexOf(@, data_group)),
            ![g].counted_display_items =
                subtract_counted_display_items(@, groups[data_group].counted_display_items)]
    /\ UnchangedButGroups

NextGroups ==
    \/ \E g \in GroupNames, x \in DisplayItems :
            \E i \in 0..Len(groups[g].display_items) : insert_display_item(g, i, x)
    \/ \E g \in GroupNames, x \in DisplayItems : remove_display_item(g, x)
    \/ \E g \in GroupNames, c \in GroupNames :
            \E i \in 0..Len(groups[g].data_groups) : insert_data_group(g, i, c)
    \/ \E g \in GroupNames, c \in GroupNames : remove_data_group(g, c)

SpecGroups == Init /\ [][NextGroups]_vars

----------------------------------------------------------------------------
(* BufferedDataSource: the data ref count and the payload *)

\* what a call hands back: the data source after it and whether it raised
Outcome(ds, raised) == [source |-> ds, raised |-> raised]

\* DataAndMetadata.increment_data_ref_count: the payload is loaded through
\* __load_data (lines 382-385) when the count leaves 0; a failing load raises
dam_increment_data_ref_count(ds, load_ok) ==
    LET counted == [ds EXCEPT !.dam_ref_count = @ + 1]
    IN  IF ds.dam_ref_count = 0 /\ ds.payload = "unloaded"
        THEN IF load_ok THEN Outcome([counted EXCEPT !.payload = "valid"], FALSE)
             ELSE Outcome([counted EXCEPT !.load_failed = TRUE], TRUE)
        ELSE Outcome(counted, FALSE)

\* DataAndMetadata.decrement_data_ref_count: an unloadable payload leaves
\* memory when the count returns to 0
dam_decrement_data_ref_count(ds) ==
    LET counted == [ds EXCEPT !.dam_ref_count = @ - 1]
    IN  IF counted.dam_ref_count = 0 /\ ds.unloadable /\ ds.payload = "valid"
        THEN [counted EXCEPT !.payload = "unloaded"]
        ELSE counted

\* mutant: every acquire asks the payload to load, whatever the count was
increment_loads_always(ds, load_ok) ==
    dam_increment_data_ref_count([ds EXCEPT !.data_ref_count = @ + 1], load_ok)

\* lines 545-551
increment_data_ref_count(ds, load_ok) ==
    LET initial_count == ds.data_ref_count
        counted == [ds EXCEPT !.data_ref_count = @ + 1]
    IN  IF initial_count = 0 /\ ds.payload # "none"
        THEN dam_increment_data_ref_count(counted, load_ok)
        ELSE Outcome(counted, FALSE)

\* mutant: the count returns to 0 and the payload is told nothing
decrement_without_unload(ds) == [ds EXCEPT !.data_ref_count = @ - 1]

\* lines 553-560, past the assert
decrement_data_ref_count(ds) ==
    LET counted == [ds EXCEPT !.data_ref_count = @ - 1]
    IN  IF counted.data_ref_count = 0 /\ ds.payload # "none"
        THEN dam_decrement_data_ref_count(counted)
        ELSE counted

\* is_data_loaded, lines 564-565
is_data_loaded(ds) == ds.payload = "valid"

\* the "with data_ref()" blocks open on the data source s
OpenHandles(s) == Len(SelectSeq(handles, LAMBDA h : h.source = s))

\* a consumer calls increment_data_ref_count on s, lines 545-551
IncrementDataRefCount(s, load_ok) ==
    /\ ~data_sources[s].closed
    /\ OpenHandles(s) = 0
    /\ data_sources[s].data_ref_count < MaxRefCount
    /\ LET out == increment_data_ref_count(data_sources[s], load_ok)
       IN  /\ data_sources' = [data_sources EXCEPT
                   ![s] = IF out.raised THEN out.source
                          ELSE [out.source EXCEPT !.held = @ + 1]]
           /\ item_call' = [op |-> "increment", source |-> s, raised |-> out.raised,
                            before |-> data_sources[s].data_ref_count]
    /\ UNCHANGED <<binding_vars, extension_vars, commute, groups, computation_vars, data_item_state, handles>>

\* a consumer gives back what it took with increment_data_ref_count, lines 553-560
DecrementDataRefCount(s) ==
    /\ data_sources[s].held > 0
    /\ OpenHandles(s) = 0
    /\ data_sources[s].data_ref_count > 0
    /\ data_sources' = [data_sources EXCEPT
            ![s] = [decrement_data_ref_count(@) EXCEPT !.held = @ - 1]]
    /\ item_call' = [op |-> "decrement", source |-> s, raised |-> FALSE,
                     before |-> data_sources[s].data_ref_count]
    /\ UNCHANGED <<binding_vars, extension_vars, commute, groups, computation_vars, data_item_state, handles>>

\* DataAccessor.__enter__, lines 581-583; the block is entered if it returns
DataRefEnter(s, load_ok) ==
    /\ ~data_sources[s].closed
    /\ data_sources[s].data_ref_count < MaxRefCount
    /\ LET out == increment_data_ref_count(data_sources[s], load_ok)
       IN  /\ data_sources' = [data_sources EXCEPT ![s] = out.source]
           /\ handles' = IF out.raised THEN handles
                         ELSE Append(handles, [source |-> s,
                                               before |-> data_sources[s].data_ref_count])
           /\ item_call' = [op |-> "enter", source |-> s, raised |-> out.raised,
                            before |-> data_sources[s].data_ref_count]
    /\ UNCHANGED <<binding_vars, extension_vars, commute, groups, computation_vars, data_item_state>>

\* mutant: the count is given back only when the body ended without an exception
exit_decrements_unless_raised(raised) == ~raised

\* DataAccessor.__exit__, lines 584-585: whatever type, value, traceback are
exit_decrements(raised) == TRUE

\* the innermost block ends, by reaching its end or by an exception of its body
DataRefExit(raised) ==
    /\ handles # <<>>
    /\ LET h == handles[Len(handles)]
       IN  /\ data_sources' = [data_sources EXCEPT
                   ![h.source] = IF exit_decrements(raised)
                                 THEN decrement_data_ref_count(@) ELSE @]
           /\ item_call' = [op |-> "exit", source |-> h.source, raised |-> raised,
                            before |-> h.before]
    /\ handles' = SubSeq(handles, 1, Len(handles) - 1)
    /\ UNCHANGED <<binding_vars, extension_vars, commute, groups, computation_vars, data_item_state>>

NextRefCount ==
    \/ \E s \in SourceNames, load_ok \in BOOLEAN : IncrementDataRefCount(s, load_ok)
    \/ \E s \in SourceNames : DecrementDataRefCount(s)
    \/ \E s \in SourceNames, load_ok \in BOOLEAN : DataRefEnter(s, load_ok)
    \/ \E raised \in BOOLEAN : DataRefExit(raised)

SpecRefCount == Init /\ [][NextRefCount]_vars

----------------------------------------------------------------------------
(* DataItem: the transaction state and the data sources *)

\* a stored item with the data source S1, and S2 newly made for it
InitTransaction ==
    /\ InitBinding
    /\ commute = NoCommute
    /\ groups = NoGroups
    /\ data_item_state = StoredItem
    /\ data_sources = [s \in SourceNames |-> IF s = "S1" THEN StoredSource ELSE NewSource]
    /\ handles = <<>>
    /\ item_call = NoItemCall
    /\ computations = [k \in ComputationNames |-> NoComputation]

ItemCall(op) == [op |-> op, source |-> None, raised |-> FALSE, before |-> 0]

\* lines 948-954
enter_write_delay_state(item) ==
    [item EXCEPT !.write_delay_modified_count = item.modified_count,
                 !.write_delay_data_changed = FALSE,
                 !.write_delayed = IF item.context THEN TRUE ELSE @]

\* a call on the persistent object context, noted with the transaction state
WriteCall(item, call) ==
    [item EXCEPT !.writes = Append(@, [call |-> call,
                                       in_transaction |-> item.in_transaction_state])]

\* mutant: the properties are rewritten whether or not the count moved
properties_rewritten_always(item) == TRUE

\* line 968
properties_modified(item) == item.modified_count > item.write_delay_modified_count

\* lines 963-971
finish_pending_write(item) ==
    IF item.pending_write
    THEN [WriteCall(item, "write_data_item") EXCEPT !.pending_write = FALSE]
    ELSE LET rewritten == IF properties_modified(item)
                          THEN WriteCall(item, "rewrite_data_item_properties") ELSE item
         IN  IF item.write_delay_data_changed
             THEN WriteCall(rewritten, "rewrite_data_item_data") ELSE rewritten

\* lines 956-961
exit_write_delay_state(item) ==
    IF item.context THEN finish_pending_write([item EXCEPT !.write_delayed = FALSE])
    ELSE item

\* SuspendableCache.suspend_cache: later writes go to the shadow
suspend_cache(c) ==
    [c EXCEPT !.suspended = TRUE, !.dirty = {}, !.frozen = c.store,
              !.call = [NoCacheCall EXCEPT !.op = "suspend"]]

\* SuspendableCache.spill_cache: every shadowed write is replayed into the
\* external store, the shadow is cleared and writes pass through again
spill_cache(c) ==
    [c EXCEPT !.suspended = FALSE,
              !.store = [k \in Keys |-> IF c.shadow[k] # 0 THEN c.shadow[k] ELSE c.store[k]],
              !.shadow = [k \in Keys |-> 0],
              !.call = [NoCacheCall EXCEPT !.op = "spill", !.spilled = c.dirty]]

\* SuspendableCache.set_cached_value: to the shadow while suspended, else to
\* the external store
cache_write(c, key, value) ==
    [c EXCEPT !.shadow[key] = IF c.suspended THEN value ELSE @,
              !.store[key] = IF c.suspended THEN @ ELSE value,
              !.latest[key] = value,
              !.dirty = IF c.suspended THEN @ \cup {key} ELSE @,
              !.call = [NoCacheCall EXCEPT !.op = "write", !.key = key, !.value = value]]

\* mutant: the read goes to the external store without looking at the shadow
cache_read_store_only(c, key) == c.store[key]

\* SuspendableCache.get_cached_value: the shadow first, then the external store
cache_read(c, key) == IF c.shadow[key] # 0 THEN c.shadow[key] ELSE c.store[key]

\* lines 973-983; the payloads load without failure
EnterTransactionState ==
    /\ ~data_item_state.in_transaction_state
    /\ \A s \in SourceNames :
            data_sources[s].attached => data_sources[s].data_ref_count < MaxRefCount
    /\ data_item_state' =
            [enter_write_delay_state([data_item_state EXCEPT !.in_transaction_state = TRUE])
                EXCEPT !.writes = <<>>,
                       !.changes = [property |-> 0, metadata |-> FALSE, data |-> FALSE]]
    /\ data_sources' = [s \in SourceNames |->
            IF data_sources[s].attached
            THEN increment_data_ref_count(data_sources[s], TRUE).source
            ELSE data_sources[s]]
    /\ cache' = suspend_cache(cache)
    /\ item_call' = ItemCall("enter_transaction")
    /\ UNCHANGED <<binding_vars, source_changes, threads, lock_threads, lifecycle_vars, downstream,
                   commute, groups, computation_vars, handles>>

\* what one step of _exit_transaction_state has left behind
ExitSnapshot(st, step) ==
    [step |-> step,
     in_transaction_state |-> st.item.in_transaction_state,
     suspended |-> st.cache.suspended,
     write_delayed |-> st.item.write_delayed,
     writes |-> st.item.writes,
     attached |-> {s \in SourceNames : st.sources[s].attached},
     data_ref_count |-> [s \in SourceNames |-> st.sources[s].data_ref_count],
     loaded |-> {s \in SourceNames : is_data_loaded(st.sources[s])}]

\* the statements of _exit_transaction_state, lines 985-995
exit_transaction_step(st, step) ==
    CASE step = "clear_flag" ->                                     \* line 986
            [st EXCEPT !.item.in_transaction_state = FALSE]
      [] step = "spill_cache" ->                                    \* lines 989-990
            [st EXCEPT !.cache = spill_cache(@)]
      [] step = "exit_write_delay" ->                               \* line 992
            [st EXCEPT !.item = exit_write_delay_state(@)]
      [] step = "release" ->                                        \* lines 994-995
            [st EXCEPT !.sources = [s \in SourceNames |->
                IF st.sources[s].attached
                THEN decrement_data_ref_count(st.sources[s])
                ELSE st.sources[s]]]

\* mutant: the data sources are released before the pending writes are flushed
exit_releases_first == <<"clear_flag", "spill_cache", "release", "exit_write_delay">>

\* the order of the statements of _exit_transaction_state, lines 985-995
exit_transaction_order == <<"clear_flag", "spill_cache", "exit_write_delay", "release">>

RECURSIVE run_exit_transaction(_, _)
\* the statements run one after the other, each on what the one before left
run_exit_transaction(st, order) ==
    IF order = <<>> THEN st
    ELSE LET next == exit_transaction_step(st, Head(order))
         IN  run_exit_transaction(
                 [next EXCEPT !.steps = Append(@, ExitSnapshot(next, Head(order)))],
                 Tail(order))

\* lines 985-995
ExitTransactionState ==
    /\ data_item_state.in_transaction_state
    /\ LET done == run_exit_transaction(
                       [item |-> data_item_state, sources |-> data_sources,
                        cache |-> cache, steps |-> <<>>],
                       exit_transaction_order)
       IN  /\ data_item_state' = done.item
           /\ data_sources' = done.sources
           /\ cache' = done.cache
           /\ exit_steps' = done.steps
    /\ item_call' = ItemCall("exit_transaction")
    /\ UNCHANGED <<binding_vars, source_changes, threads, lock_threads, downstream,
                   content_changes, replacing, commute, groups, computation_vars, handles>>

\* mutant: a data source that joins during a transaction is not acquired
insert_never_increments(in_transaction_state) == FALSE

\* lines 1228-1229
insert_increments(in_transaction_state) == in_transaction_state

\* append_data_source, lines 1266-1267, with __insert_data_source, 1208-1238, and
\* the data source's persistent_object_context_changed, 308-311
AppendDataSource(s) ==
    /\ ~data_sources[s].attached /\ ~data_sources[s].closed
    /\ data_sources[s].data_ref_count < MaxRefCount
    /\ LET joined == [data_sources[s] EXCEPT
                         !.attached = TRUE,
                         !.appended_in_transaction = data_item_state.in_transaction_state,
                         !.unloadable = IF data_sources[s].payload # "none"
                                        THEN data_item_state.context ELSE @]
       IN  data_sources' = [data_sources EXCEPT
               ![s] = IF insert_increments(data_item_state.in_transaction_state)
                      THEN increment_data_ref_count(joined, TRUE).source
                      ELSE joined]
    /\ item_call' = ItemCall("append_data_source")
    /\ UNCHANGED <<binding_vars, extension_vars, commute, groups, computation_vars, data_item_state, handles>>

\* remove_data_source, lines 1269-1270, with __remove_data_source, 1240-1243,
\* __disconnect_data_source, 1245-1264, and close, 202-216
RemoveDataSource(s) ==
    /\ data_sources[s].attached
    /\ LET left == IF data_item_state.in_transaction_state
                   THEN decrement_data_ref_count(data_sources[s])
                   ELSE data_sources[s]
       IN  data_sources' = [data_sources EXCEPT
               ![s] = [left EXCEPT !.attached = FALSE, !.closed = TRUE, !.payload = "none"]]
    /\ item_call' = ItemCall("remove_data_source")
    /\ UNCHANGED <<binding_vars, extension_vars, commute, groups, computation_vars, data_item_state, handles>>

\* a consumer outside the item takes the payload of s, lines 545-551
OtherIncrement(s) == IncrementDataRefCount(s, TRUE)

\* and gives it back, lines 553-560
OtherDecrement(s) == DecrementDataRefCount(s)

NextTransaction ==
    \/ EnterTransactionState
    \/ ExitTransactionState
    \/ \E s \in SourceNames : AppendDataSource(s)
    \/ \E s \in SourceNames : RemoveDataSource(s)
    \/ \E s \in SourceNames : OtherIncrement(s)
    \/ \E s \in SourceNames : OtherDecrement(s)

SpecTransaction == InitTransaction /\ [][NextTransaction]_vars

----------------------------------------------------------------------------
(* DataItem: changes and the calls on the persistent storage *)

\* DataItem(data), lines 784-829: no context yet and the first write pending
NewItem == [StoredItem EXCEPT !.pending_write = TRUE, !.context = FALSE]

\* an item read from storage, or a new item with data sources made from data
InitWriteDelay ==
    /\ InitBinding
    /\ commute = NoCommute
    /\ groups = NoGroups
    /\ \/ /\ data_item_state = StoredItem
          /\ data_sources = [s \in SourceNames |-> StoredSource]
       \/ /\ data_item_state = NewItem
          /\ data_sources = [s \in SourceNames |-> [NewSource EXCEPT !.attached = TRUE]]
    /\ handles = <<>>
    /\ item_call = NoItemCall
    /\ computations = [k \in ComputationNames |-> NoComputation]

\* outside a transaction the record of storage calls starts afresh with each call
FreshWrites(item) ==
    IF item.in_transaction_state THEN item ELSE [item EXCEPT !.writes = <<>>]

\* the storage of the item takes a changed property: it is written at once
\* unless write_delayed is set
storage_property_changed(item) ==
    IF item.context /\ ~item.write_delayed
    THEN WriteCall(item, "rewrite_data_item_properties") ELSE item

\* PersistentObject._set_persistent_property_value on the item: the
\* modification counter advances and the storage is told
set_persistent_property_value(item) ==
    storage_property_changed([item EXCEPT !.modified_count = @ + 1])

\* a property of the item is set: metadata, lines 1194-1197, title, 1339-1344
PropertyChange ==
    /\ data_item_state.modified_count < MaxModified
    /\ data_item_state.changes.property < MaxChanges
    /\ Len(FreshWrites(data_item_state).writes) < MaxChanges
    /\ data_item_state' =
            [set_persistent_property_value(FreshWrites(data_item_state)) EXCEPT
                !.changes.property =
                    IF data_item_state.in_transaction_state THEN @ + 1 ELSE @]
    /\ item_call' = ItemCall("property")
    /\ UNCHANGED <<binding_vars, extension_vars, commute, groups, computation_vars, data_sources, handles>>

\* lines 1230-1233: any data_item_changed_event of a data source marks the data
marks_data_changed(kind) == TRUE

\* the data_item_changed listener of the item, lines 1230-1233, reached from
\* _end_changes, lines 645-664, after a change of the given kind
data_item_changed(item, kind) ==
    [item EXCEPT
        !.write_delay_data_changed = IF marks_data_changed(kind) THEN TRUE ELSE @,
        !.changes.data = IF kind = "data" /\ item.in_transaction_state THEN TRUE ELSE @,
        !.changes.metadata = IF kind = "metadata" /\ item.in_transaction_state THEN TRUE ELSE @]

\* lines 421-422
set_data_writes(item) == item.context

\* line 388: the data source points at the new payload object, which comes
\* with its data in memory, a count of 0 and unloadable not set
install_payload(ds) ==
    [ds EXCEPT !.payload = "valid", !.dam_ref_count = 0, !.unloadable = FALSE]

\* lines 389-391: _add_data_ref_count(self.__data_ref_count) on the payload the
\* data source points at, inside the ref count mutex
add_data_ref_count(ds) == [ds EXCEPT !.dam_ref_count = @ + ds.data_ref_count]

\* BufferedDataSource.set_data_and_metadata, lines 404-426, with
\* __set_data_metadata_direct, 387-402
SetDataAndMetadata(s) ==
    /\ data_sources[s].attached
    /\ Len(FreshWrites(data_item_state).writes) < MaxChanges
    /\ data_sources' = [data_sources EXCEPT
            ![s] = [add_data_ref_count(install_payload(@)) EXCEPT
                        !.unloadable = data_item_state.context]]
    /\ LET fresh == FreshWrites(data_item_state)
           written == IF set_data_writes(fresh)
                      THEN WriteCall(fresh, "rewrite_data_item_data") ELSE fresh
       IN  data_item_state' = data_item_changed(written, "data")
    /\ item_call' = [ItemCall("set_data") EXCEPT !.source = s]
    /\ UNCHANGED <<binding_vars, extension_vars, commute, groups, computation_vars, handles>>

\* BufferedDataSource.metadata setter, lines 489-495, with __metadata_changed, 344-347
SetSourceMetadata(s) ==
    /\ data_sources[s].attached
    /\ Len(FreshWrites(data_item_state).writes) < MaxChanges
    /\ data_item_state' =
            data_item_changed(storage_property_changed(FreshWrites(data_item_state)),
                              "metadata")
    /\ item_call' = [ItemCall("set_metadata") EXCEPT !.source = s]
    /\ UNCHANGED <<binding_vars, extension_vars, commute, groups, computation_vars, data_sources, handles>>

\* the item gets its persistent object context, lines 997-1002, and its data
\* sources with it, lines 308-311
SetContext ==
    /\ ~data_item_state.context
    /\ LET with_context == [data_item_state EXCEPT !.context = TRUE]
       IN  data_item_state' = IF data_item_state.in_transaction_state
                              THEN enter_write_delay_state(with_context)
                              ELSE with_context
    /\ data_sources' = [s \in SourceNames |->
            IF data_sources[s].attached /\ data_sources[s].payload # "none"
            THEN [data_sources[s] EXCEPT !.unloadable = TRUE]
            ELSE data_sources[s]]
    /\ item_call' = ItemCall("set_context")
    /\ UNCHANGED <<binding_vars, extension_vars, commute, groups, computation_vars, handles>>

\* the document writes an item that is in no transaction, lines 963-971
FinishPendingWrite ==
    /\ data_item_state.context
    /\ ~data_item_state.in_transaction_state
    /\ data_item_state' = finish_pending_write(FreshWrites(data_item_state))
    /\ item_call' = ItemCall("finish_pending_write")
    /\ UNCHANGED <<binding_vars, extension_vars, commute, groups, computation_vars, data_sources, handles>>

NextWriteDelay ==
    \/ EnterTransactionState
    \/ ExitTransactionState
    \/ PropertyChange
    \/ \E s \in SourceNames : SetDataAndMetadata(s)
    \/ \E s \in SourceNames : SetSourceMetadata(s)
    \/ SetContext
    \/ FinishPendingWrite

SpecWriteDelay == InitWriteDelay /\ [][NextWriteDelay]_vars

----------------------------------------------------------------------------
(* Computations and their computed items *)

\* evaluate(): the payload of the current expression, <<n>>, or no payload,
\* <<>>, and an error text; it does not raise
evaluate(c) ==
    IF c.valid
    THEN [c EXCEPT !.result = <<c.generation>>, !.error_text = None, !.raised = FALSE]
    ELSE [c EXCEPT !.result = <<>>, !.error_text = "error", !.raised = FALSE]

\* mutant: the computed item takes whatever evaluate() returned
store_result_always(data, result) == IF result = <<>> THEN 0 ELSE result[1]

\* the computed item takes a new payload only from a successful evaluation
store_result(data, result) == IF result = <<>> THEN data ELSE result[1]

\* parse_expression, or a new value of a variable: the computation changes
\* and asks for an update
ComputationMutated(k, valid) ==
    /\ computations[k].generation < MaxGeneration
    /\ computations' = [computations EXCEPT
            ![k].generation = @ + 1, ![k].valid = valid, ![k].needs_update = TRUE,
            ![k].op = "mutate", ![k].before = computations[k].data,
            ![k].had_error = computations[k].error_text # None]
    /\ UNCHANGED <<binding_vars, extension_vars, commute, groups, item_vars>>

\* computation.evaluate() called directly
Evaluate(k) ==
    /\ computations[k].generation > 0
    /\ computations' = [computations EXCEPT
            ![k] = [evaluate(@) EXCEPT !.op = "evaluate", !.before = computations[k].data,
                                       !.had_error = computations[k].error_text # None]]
    /\ UNCHANGED <<binding_vars, extension_vars, commute, groups, item_vars>>

\* document_model.recompute_all() reaches a computation that asked for an update
Recompute(k) ==
    /\ computations[k].needs_update
    /\ LET c == evaluate(computations[k])
       IN  computations' = [computations EXCEPT
               ![k] = [c EXCEPT !.data = store_result(computations[k].data, c.result),
                                !.needs_update = FALSE, !.op = "recompute",
                                !.before = computations[k].data,
                                !.had_error = computations[k].error_text # None]]
    /\ UNCHANGED <<binding_vars, extension_vars, commute, groups, item_vars>>

NextComputation ==
    \/ \E k \in ComputationNames, valid \in BOOLEAN : ComputationMutated(k, valid)
    \/ \E k \in ComputationNames : Evaluate(k)
    \/ \E k \in ComputationNames : Recompute(k)

SpecComputation == Init /\ [][NextComputation]_vars

----------------------------------------------------------------------------
(* A container that sends its deltas to the Binding bound to it *)

\* the items put into and taken out of the container
ContainerItems == {"A", "B", "C"}

\* the items of the container in definition order; the container is group "R"
container_data_items == groups["R"].display_items

\* the container inserts an item (DataGroup.insert_display_item, lines 124-134)
\* and sends update_counted_data_items(Counter([item])) to the Binding, which
\* the class comment of DataItemsInContainerBinding requires of it
ContainerInsertItem(before_index, item) ==
    /\ WriterIdle
    /\ mutex_available("writer")
    /\ ~InSeq(item, container_data_items)
    /\ groups' = [groups EXCEPT
            !["R"].display_items = InsertAt(@, before_index, item),
            !["R"].counted_display_items = update_counted_display_items(@, CounterOf(item))]
    /\ counted_data_items' = update_counted_data_items(counted_data_items, CounterOf(item))
    /\ update_data_items_call(change_level, counted_data_items', filter, sort, "delta")
    /\ UNCHANGED <<data_items, filter, sort, change_level, inserters, removers, mirror,
                   callback_ok, scopes, exc, snapshot, counted_display_items, agg_call,
                   commute, item_vars, computation_vars, extension_vars>>

\* the container removes an item (DataGroup.remove_display_item, lines 136-145)
\* and sends subtract_counted_data_items(Counter([item])) to the Binding
ContainerRemoveItem(item) ==
    /\ WriterIdle
    /\ mutex_available("writer")
    /\ InSeq(item, container_data_items)
    /\ groups' = [groups EXCEPT
            !["R"].display_items = DelAt(@, IndexOf(@, item)),
            !["R"].counted_display_items = subtract_counted_display_items(@, CounterOf(item))]
    /\ counted_data_items' = subtract_counted_data_items(counted_data_items, CounterOf(item))
    /\ update_data_items_call(change_level, counted_data_items', filter, sort, "delta")
    /\ UNCHANGED <<data_items, filter, sort, change_level, inserters, removers, mirror,
                   callback_ok, scopes, exc, snapshot, counted_display_items, agg_call,
                   commute, item_vars, computation_vars, extension_vars>>

\* a Binding without sort bound to a container that changes
NextContainer ==
    \/ \E item \in ContainerItems :
            \E i \in 0..Len(container_data_items) : ContainerInsertItem(i, item)
    \/ \E item \in ContainerItems : ContainerRemoveItem(item)
    \/ \E f \in Filters : SetFilter(f)
    \/ SettleStep
    \/ SettleReturn

SpecContainer == Init /\ [][NextContainer]_vars

----------------------------------------------------------------------------
(* BufferedDataSource: the change count and the thread that holds it *)

MaxChangeCount == 3     \* largest change count of the data source

\* what warnings.warn does with a RuntimeWarning: the default filter reports
\* it and the call goes on; the filter "error" raises it
WarningFilters == {"default", "error"}

ChangesCall(sc, op, t, warned, raised, fired) ==
    [op |-> op, thread |-> t,
     misuse |-> sc.change_count > 0 /\ sc.change_thread # t,
     warned |-> warned, raised |-> raised, before |-> sc.change_count, fired |-> fired]

\* _begin_changes, lines 636-643, called by ChangeContextManager.__enter__
begin_changes(sc, t, warning_filter) ==
    LET warned == sc.change_count # 0 /\ sc.change_thread # t
        raised == warned /\ warning_filter = "error"
    IN  IF raised
        THEN [sc EXCEPT !.call = ChangesCall(sc, "begin", t, warned, TRUE, FALSE)]
        ELSE [sc EXCEPT !.change_thread = IF sc.change_count = 0 THEN t ELSE @,
                        !.change_count = @ + 1,
                        !.open[t] = @ + 1,
                        !.call = ChangesCall(sc, "begin", t, warned, FALSE, FALSE)]

\* _end_changes, lines 645-664, called by ChangeContextManager.__exit__: the
\* block is left whether or not the call raises
end_changes(sc, t, warning_filter) ==
    LET warned == sc.change_count # 1 /\ sc.change_thread # t
        raised == warned /\ warning_filter = "error"
        fired  == sc.change_count = 1 /\ sc.change_changed
    IN  IF raised
        THEN [sc EXCEPT !.open[t] = @ - 1,
                        !.call = ChangesCall(sc, "end", t, warned, TRUE, FALSE)]
        ELSE [sc EXCEPT !.change_thread = IF sc.change_count = 1 THEN None ELSE @,
                        !.change_count = @ - 1,
                        !.change_changed = IF sc.change_count = 1 THEN FALSE ELSE @,
                        !.open[t] = @ - 1,
                        !.call = ChangesCall(sc, "end", t, warned, FALSE, fired)]

UnchangedButSourceChanges ==
    UNCHANGED <<binding_vars, commute, groups, item_vars, computation_vars,
                threads, lock_threads, lifecycle_vars, cache, downstream>>

\* a thread enters "with buffered_data_source._changes():"
BeginChanges(t, warning_filter) ==
    /\ source_changes.change_count < MaxChangeCount
    /\ source_changes' = begin_changes(source_changes, t, warning_filter)
    /\ UnchangedButSourceChanges

\* a thread leaves its innermost "with buffered_data_source._changes():"
EndChanges(t, warning_filter) ==
    /\ source_changes.open[t] > 0
    /\ source_changes.change_count > 0
    /\ source_changes' = end_changes(source_changes, t, warning_filter)
    /\ UnchangedButSourceChanges

\* inside its block the thread changes the data source (line 668 and the
\* setters that set __change_changed)
MarkChanged(t) ==
    /\ source_changes.open[t] > 0
    /\ source_changes' = [source_changes EXCEPT
            !.change_changed = TRUE,
            !.call = ChangesCall(source_changes, "change", t, FALSE, FALSE, FALSE)]
    /\ UnchangedButSourceChanges

NextChanges ==
    \/ \E t \in Threads, w \in WarningFilters : BeginChanges(t, w)
    \/ \E t \in Threads, w \in WarningFilters : EndChanges(t, w)
    \/ \E t \in Threads : MarkChanged(t)

SpecChanges == Init /\ [][NextChanges]_vars

----------------------------------------------------------------------------
(* The suspendable storage cache of the item during and outside transactions *)

\* a value is written to the cache of the item (set_cached_value)
CacheWrite(key, value) ==
    /\ cache' = cache_write(cache, key, value)
    /\ UNCHANGED <<binding_vars, source_changes, threads, lock_threads, lifecycle_vars, downstream,
                   commute, groups, item_vars, computation_vars>>

\* a value is read from the cache of the item (get_cached_value)
CacheRead(key) ==
    /\ cache' = [cache EXCEPT !.call = [NoCacheCall EXCEPT !.op = "read", !.key = key,
                                                           !.value = cache_read(cache, key)]]
    /\ UNCHANGED <<binding_vars, source_changes, threads, lock_threads, lifecycle_vars, downstream,
                   commute, groups, item_vars, computation_vars>>

NextCache ==
    \/ EnterTransactionState
    \/ ExitTransactionState
    \/ \E k \in Keys, v \in Values : CacheWrite(k, v)
    \/ \E k \in Keys : CacheRead(k)

SpecCache == Init /\ [][NextCache]_vars

----------------------------------------------------------------------------
(* Two threads calling into one Binding *)

MaxDepth == 1           \* most change scopes one thread has open
MaxDrift == 1           \* largest distance of the change level from 0 at which a scope is opened
MaxThreadCount == 1     \* largest count of an item in the aggregate the threads feed

\* the item the threads add to and take from the aggregate: P, which brings
\* its dependent D into the list, so that a pass over it sends two events
ThreadItems == {"P"}

ThreadAt(t, pc) == threads[t].pc = pc

\* the thread goes to pc with the call op on its stack
Goto(t, pc, op) == [threads EXCEPT ![t].pc = pc, ![t].op = op]

UnchangedButThreads ==
    UNCHANGED <<sort, inserters, removers, settle, events, scopes, exc, snapshot,
                counted_display_items, agg_call, commute, groups, item_vars,
                computation_vars, source_changes, lock_threads, lifecycle_vars, cache, downstream>>

\* begin_change, line 30: "self.__change_level += 1" loads the attribute ...
BeginChangeLoad(t) ==
    /\ ThreadAt(t, "idle")
    /\ threads[t].depth < MaxDepth
    /\ change_level >= -MaxDrift /\ change_level <= MaxDrift
    /\ threads' = [Goto(t, "B_store", "begin_change") EXCEPT ![t].local = change_level]
    /\ UNCHANGED <<counted_data_items, data_items, filter, change_level, update_mutex,
                   mirror, callback_ok>>
    /\ UnchangedButThreads

\* ... and stores the sum, with no lock held in between
BeginChangeStore(t) ==
    /\ ThreadAt(t, "B_store")
    /\ change_level' = begin_change(threads[t].local)
    /\ threads' = [Goto(t, "idle", "none") EXCEPT ![t].depth = @ + 1,
                                                ![t].local = change_level']
    /\ UNCHANGED <<counted_data_items, data_items, filter, update_mutex, mirror, callback_ok>>
    /\ UnchangedButThreads

\* end_change, line 33: "self.__change_level -= 1" loads the attribute ...
EndChangeLoad(t) ==
    /\ ThreadAt(t, "idle")
    /\ threads[t].depth > 0
    /\ threads' = [Goto(t, "E_store", "end_change") EXCEPT ![t].local = change_level]
    /\ UNCHANGED <<counted_data_items, data_items, filter, change_level, update_mutex,
                   mirror, callback_ok>>
    /\ UnchangedButThreads

\* ... and stores the difference
EndChangeStore(t) ==
    /\ ThreadAt(t, "E_store")
    /\ change_level' = end_change(threads[t].local)
    /\ threads' = [Goto(t, "E_test", "end_change") EXCEPT ![t].depth = @ - 1,
                                                       ![t].local = change_level']
    /\ UNCHANGED <<counted_data_items, data_items, filter, update_mutex, mirror, callback_ok>>
    /\ UnchangedButThreads

\* end_change, lines 34-35: the attribute is read again for the comparison
EndChangeTest(t) ==
    /\ ThreadAt(t, "E_test")
    /\ threads' = IF change_level = 0 THEN Goto(t, "U_check", "end_change")
                  ELSE Goto(t, "idle", "none")
    /\ UNCHANGED <<counted_data_items, data_items, filter, change_level, update_mutex,
                   mirror, callback_ok>>
    /\ UnchangedButThreads

\* __set_filter, lines 62-63: the assignment inside "with self._update_mutex"
ThreadSetFilter(t, f) ==
    /\ ThreadAt(t, "idle")
    /\ mutex_available(t)
    /\ filter' = f
    /\ threads' = Goto(t, "U_check", "set_filter")
    /\ UNCHANGED <<counted_data_items, data_items, change_level, update_mutex,
                   mirror, callback_ok>>
    /\ UnchangedButThreads

\* update_counted_data_items, lines 224-225
ThreadUpdateCounted(t, item) ==
    /\ ThreadAt(t, "idle")
    /\ mutex_available(t)
    /\ CounterGet(counted_data_items, item) < MaxThreadCount
    /\ counted_data_items' = update_counted_data_items(counted_data_items, CounterOf(item))
    /\ threads' = Goto(t, "U_check", "delta")
    /\ UNCHANGED <<data_items, filter, change_level, update_mutex, mirror, callback_ok>>
    /\ UnchangedButThreads

\* subtract_counted_data_items, lines 230-232
ThreadSubtractCounted(t, item) ==
    /\ ThreadAt(t, "idle")
    /\ mutex_available(t)
    /\ CounterGet(counted_data_items, item) > 0
    /\ counted_data_items' = subtract_counted_data_items(counted_data_items, CounterOf(item))
    /\ threads' = Goto(t, "U_check", "delta")
    /\ UNCHANGED <<data_items, filter, change_level, update_mutex, mirror, callback_ok>>
    /\ UnchangedButThreads

\* _update_data_items, lines 81-82: the level is read before the mutex is taken
ThreadCheckLevel(t) ==
    /\ ThreadAt(t, "U_check")
    /\ threads' = IF update_suppressed(change_level) THEN Goto(t, "idle", "none")
                  ELSE Goto(t, "U_lock", threads[t].op)
    /\ UNCHANGED <<counted_data_items, data_items, filter, change_level, update_mutex,
                   mirror, callback_ok>>
    /\ UnchangedButThreads

\* _update_data_items, lines 83-107: the mutex is taken and the lists are built
ThreadLock(t) ==
    /\ ThreadAt(t, "U_lock")
    /\ mutex_available(t)
    /\ update_mutex' = t
    /\ threads' = [Goto(t, "U_run", threads[t].op) EXCEPT
            ![t].emitted = 0,
            ![t].pass = [pc    |-> IF uniqueness_asserts(counted_data_items, filter, sort)
                                   THEN "L111" ELSE "abort",
                         old   |-> data_items,
                         new   |-> proposed_data_items(counted_data_items, filter, sort),
                         index |-> 0,
                         start |-> data_items,
                         trigger |-> threads[t].op]]
    /\ UNCHANGED <<counted_data_items, data_items, filter, change_level, mirror, callback_ok>>
    /\ UnchangedButThreads

\* _update_data_items, lines 108-149: up to the next event and its callbacks
ThreadSettleStep(t) ==
    /\ ThreadAt(t, "U_run")
    /\ threads[t].pass.pc \in {"L111", "L119", "L130", "L143"}
    /\ LET r == RunToEvent(threads[t].pass, data_items)
       IN  /\ threads' = [threads EXCEPT ![t].pass = r.p, ![t].emitted = @ + Len(r.evs)]
           /\ data_items' = r.dl
           /\ IF r.evs = <<>>
              THEN UNCHANGED <<mirror, callback_ok>>
              ELSE /\ mirror' = deliver(mirror, r.evs[1], inserters, removers)
                   /\ callback_ok' = (callback_ok /\ callback_applicable(mirror, r.evs[1]))
    /\ UNCHANGED <<counted_data_items, filter, change_level, update_mutex>>
    /\ UnchangedButThreads

\* the end of the "with self._update_mutex" block: the mutex is released
ThreadSettleReturn(t) ==
    /\ ThreadAt(t, "U_run")
    /\ threads[t].pass.pc \in {"L150", "abort"}
    /\ update_mutex' = "free"
    /\ threads' = [Goto(t, "idle", "none") EXCEPT ![t].pass = NoSettle, ![t].emitted = 0]
    /\ UNCHANGED <<counted_data_items, data_items, filter, change_level, mirror, callback_ok>>
    /\ UnchangedButThreads

NextThreads ==
    \/ \E t \in Threads : BeginChangeLoad(t)
    \/ \E t \in Threads : BeginChangeStore(t)
    \/ \E t \in Threads : EndChangeLoad(t)
    \/ \E t \in Threads : EndChangeStore(t)
    \/ \E t \in Threads : EndChangeTest(t)
    \/ \E t \in Threads, f \in Filters : ThreadSetFilter(t, f)
    \/ \E t \in Threads, item \in ThreadItems : ThreadUpdateCounted(t, item)
    \/ \E t \in Threads, item \in ThreadItems : ThreadSubtractCounted(t, item)
    \/ \E t \in Threads : ThreadCheckLevel(t)
    \/ \E t \in Threads : ThreadLock(t)
    \/ \E t \in Threads : ThreadSettleStep(t)
    \/ \E t \in Threads : ThreadSettleReturn(t)

SpecThreads == Init /\ [][NextThreads]_vars

----------------------------------------------------------------------------
(* The Binding mutex and the ref count mutex of a data source, two threads *)

MaxAcquired == 2        \* most data refs one thread holds at a time

\* the threads that hold the lock: "binding" is DataItemsBinding._update_mutex,
\* "ref" is BufferedDataSource.__data_ref_count_mutex of data source S1
LockHeldBy(lock) == {t \in Threads : lock \in lock_threads[t].held}

\* both locks are re-entrant
LockFree(lock, t) == LockHeldBy(lock) \subseteq {t}

\* mutant: the data source reads a Binding's data_items inside its mutex
ref_count_mutex_reads_binding == {"binding"}

\* the locks taken inside "with self.__data_ref_count_mutex", lines 546-550 and
\* 554-559: none, the block changes the count and the count of the payload
locks_under_ref_count_mutex == {}

UnchangedButLocks ==
    UNCHANGED <<binding_vars, commute, groups, computation_vars, data_item_state, handles,
                item_call, source_changes, threads, lifecycle_vars, cache, downstream>>

\* a thread calls into the Binding and arrives at "with self._update_mutex"
PassBegin(t) ==
    /\ lock_threads[t].pc = "idle"
    /\ lock_threads' = [lock_threads EXCEPT ![t].pc = "pass_wait", ![t].wants = "binding"]
    /\ UNCHANGED data_sources
    /\ UnchangedButLocks

\* "with self._update_mutex", line 83: the pass starts
PassLock(t) ==
    /\ lock_threads[t].pc = "pass_wait"
    /\ LockFree("binding", t)
    /\ lock_threads' = [lock_threads EXCEPT ![t].pc = "in_pass", ![t].wants = None,
                                            ![t].held = @ \cup {"binding"}]
    /\ UNCHANGED data_sources
    /\ UnchangedButLocks

\* the pass and its callbacks are done, line 149: the mutex is released
PassEnd(t) ==
    /\ lock_threads[t].pc = "in_pass"
    /\ lock_threads' = [lock_threads EXCEPT ![t].pc = "idle", ![t].held = @ \ {"binding"}]
    /\ UNCHANGED data_sources
    /\ UnchangedButLocks

\* increment_data_ref_count or decrement_data_ref_count is called, by the
\* thread itself or by a callback or a filter of the pass it runs, and arrives
\* at "with self.__data_ref_count_mutex" (lines 546, 554)
RefCall(t, op) ==
    /\ lock_threads[t].pc \in {"idle", "in_pass"}
    /\ IF op = "increment"
       THEN lock_threads[t].acquired < MaxAcquired
       ELSE lock_threads[t].acquired > 0
    /\ lock_threads' = [lock_threads EXCEPT ![t].pc = "ref_wait", ![t].wants = "ref",
                                            ![t].context = lock_threads[t].pc,
                                            ![t].op = op]
    /\ UNCHANGED data_sources
    /\ UnchangedButLocks

\* lines 546-550 and 554-559: the count is changed inside the mutex
RefLock(t) ==
    /\ lock_threads[t].pc = "ref_wait"
    /\ LockFree("ref", t)
    /\ data_sources' = [data_sources EXCEPT !["S1"] =
            IF lock_threads[t].op = "increment"
            THEN increment_data_ref_count(@, TRUE).source
            ELSE decrement_data_ref_count(@)]
    /\ lock_threads' = [lock_threads EXCEPT
            ![t].pc = "in_ref",
            ![t].held = @ \cup {"ref"},
            ![t].acquired = IF lock_threads[t].op = "increment" THEN @ + 1 ELSE @ - 1,
            ![t].wants = IF locks_under_ref_count_mutex \subseteq lock_threads[t].held
                         THEN None
                         ELSE CHOOSE l \in locks_under_ref_count_mutex :
                                    l \notin lock_threads[t].held]
    /\ UnchangedButLocks

\* the end of "with self.__data_ref_count_mutex": the call returns
RefUnlock(t) ==
    /\ lock_threads[t].pc = "in_ref"
    /\ \A l \in locks_under_ref_count_mutex : LockFree(l, t)
    /\ lock_threads' = [lock_threads EXCEPT ![t].pc = lock_threads[t].context,
                                            ![t].held = @ \ {"ref"},
                                            ![t].wants = None,
                                            ![t].context = "idle",
                                            ![t].op = "none"]
    /\ UNCHANGED data_sources
    /\ UnchangedButLocks

NextLocks ==
    \/ \E t \in Threads : PassBegin(t)
    \/ \E t \in Threads : PassLock(t)
    \/ \E t \in Threads : PassEnd(t)
    \/ \E t \in Threads, op \in {"increment", "decrement"} : RefCall(t, op)
    \/ \E t \in Threads : RefLock(t)
    \/ \E t \in Threads : RefUnlock(t)

SpecLocks == Init /\ [][NextLocks]_vars

----------------------------------------------------------------------------
(* A DataItemsFilterBinding chained to the Binding *)

\* the items of the aggregate of the upstream Binding
ChainItems == {"C", "P"}

\* _get_master_data_items of the filter binding, lines 181-182: its master list,
\* in the shape the list builders take
downstream_master(b) == [keys |-> b.master_data_items, count |-> EmptyCounter.count]

\* _update_data_items of the filter binding, lines 80-107: returns at once in a
\* change scope, else builds its lists and enters the loop
downstream_update_data_items(b, trigger) ==
    IF update_suppressed(b.change_level) THEN b
    ELSE [b EXCEPT
            !.settle = [pc    |-> IF uniqueness_asserts(downstream_master(b), b.filter, None)
                                  THEN "L111" ELSE "abort",
                        old   |-> b.data_items,
                        new   |-> proposed_data_items(downstream_master(b), b.filter, None),
                        index |-> 0,
                        start |-> b.data_items,
                        trigger |-> trigger],
            !.events = <<>>]

\* mutant: the new item goes to the end of the master list
data_item_inserted_appends(b, data_item, before_index) ==
    IF InSeq(data_item, b.master_data_items) THEN [b EXCEPT !.settle.pc = "abort"]
    ELSE downstream_update_data_items(
            [b EXCEPT !.master_data_items = Append(@, data_item)], "inserted")

\* DataItemsFilterBinding.data_item_inserted, lines 167-171
data_item_inserted(b, data_item, before_index) ==
    IF InSeq(data_item, b.master_data_items) THEN [b EXCEPT !.settle.pc = "abort"]
    ELSE downstream_update_data_items(
            [b EXCEPT !.master_data_items = InsertAt(@, before_index, data_item)], "inserted")

\* DataItemsFilterBinding.data_item_removed, lines 174-178: the assert of line
\* 176 fails, or the del of line 177 raises IndexError, and the call is left
data_item_removed(b, data_item, index) ==
    IF ~InSeq(data_item, b.master_data_items) \/ index >= Len(b.master_data_items)
    THEN [b EXCEPT !.settle.pc = "abort"]
    ELSE downstream_update_data_items(
            [b EXCEPT !.master_data_items = DelAt(@, index)], "removed")

\* the callbacks the filter binding registered with the upstream Binding,
\* lines 158-159
downstream_callback(b, ev) ==
    IF ev.op = "remove" THEN data_item_removed(b, ev.item, ev.index)
    ELSE data_item_inserted(b, ev.item, ev.index)

\* no call on the filter binding is running
DownstreamIdle == downstream.settle.pc = "none"

UnchangedButChain ==
    UNCHANGED <<counted_data_items, filter, sort, change_level, update_mutex, inserters,
                removers, scopes, exc, snapshot, counted_display_items, agg_call,
                commute, groups, item_vars, computation_vars,
                source_changes, threads, lock_threads, lifecycle_vars, cache>>

\* one more stretch of the upstream loop, lines 108-149: the event goes to the
\* listener and to the filter binding, whose call runs before the loop goes on
ChainSettleStep ==
    /\ settle.pc \in {"L111", "L119", "L130", "L143"}
    /\ DownstreamIdle
    /\ LET r == RunToEvent(settle, data_items)
       IN  /\ settle' = r.p
           /\ data_items' = r.dl
           /\ events' = events \o r.evs
           /\ IF r.evs = <<>>
              THEN UNCHANGED <<mirror, callback_ok, downstream>>
              ELSE /\ mirror' = deliver(mirror, r.evs[1], inserters, removers)
                   /\ callback_ok' = (callback_ok /\ callback_applicable(mirror, r.evs[1]))
                   /\ downstream' = downstream_callback(downstream, r.evs[1])
    /\ UnchangedButChain

\* one more stretch of the loop of the filter binding, with the callback of
\* its own listener
DownstreamSettleStep ==
    /\ downstream.settle.pc \in {"L111", "L119", "L130", "L143"}
    /\ LET r == RunToEvent(downstream.settle, downstream.data_items)
       IN  downstream' = [downstream EXCEPT
                !.settle = r.p,
                !.data_items = r.dl,
                !.events = @ \o r.evs,
                !.mirror = IF r.evs = <<>> THEN @
                           ELSE deliver(@, r.evs[1], {"m"}, {"m"}),
                !.callback_ok = IF r.evs = <<>> THEN @
                                ELSE @ /\ callback_applicable(downstream.mirror, r.evs[1])]
    /\ UNCHANGED <<data_items, settle, events, mirror, callback_ok>>
    /\ UnchangedButChain

\* the call on the filter binding returns; a failed assertion leaves through
\* the upstream loop that made the call
DownstreamSettleReturn ==
    /\ downstream.settle.pc \in {"L150", "abort"}
    /\ downstream' = [downstream EXCEPT !.settle = NoSettle]
    /\ settle' = IF downstream.settle.pc = "abort" /\ settle.pc # "none"
                 THEN [settle EXCEPT !.pc = "abort"] ELSE settle
    /\ UNCHANGED <<data_items, events, mirror, callback_ok>>
    /\ UnchangedButChain

\* begin_change on the filter binding, lines 29-30
DownstreamBeginChange ==
    /\ WriterIdle /\ DownstreamIdle
    /\ downstream.change_level < MaxLevel
    /\ downstream' = [downstream EXCEPT !.change_level = begin_change(@)]
    /\ UNCHANGED <<data_items, settle, events, mirror, callback_ok>>
    /\ UnchangedButChain

\* end_change on the filter binding, lines 32-35
DownstreamEndChange ==
    /\ WriterIdle /\ DownstreamIdle
    /\ downstream.change_level > 0
    /\ LET b == [downstream EXCEPT !.change_level = end_change(@)]
       IN  downstream' = IF b.change_level = 0
                         THEN downstream_update_data_items(b, "end_change") ELSE b
    /\ UNCHANGED <<data_items, settle, events, mirror, callback_ok>>
    /\ UnchangedButChain

\* __set_filter on the filter binding, lines 61-64
DownstreamSetFilter(f) ==
    /\ WriterIdle /\ DownstreamIdle
    /\ downstream' = downstream_update_data_items([downstream EXCEPT !.filter = f], "filter")
    /\ UNCHANGED <<data_items, settle, events, mirror, callback_ok>>
    /\ UnchangedButChain

NextChain ==
    \/ \E item \in ChainItems : DownstreamIdle /\ UpdateCountedDataItems(item)
    \/ \E item \in ChainItems : DownstreamIdle /\ SubtractCountedDataItems(item)
    \/ \E s \in Sorts : DownstreamIdle /\ SetSort(s)
    \/ ChainSettleStep
    \/ SettleReturn
    \/ DownstreamSettleStep
    \/ DownstreamSettleReturn
    \/ DownstreamBeginChange
    \/ DownstreamEndChange
    \/ \E f \in Filters : DownstreamSetFilter(f)

SpecChain == Init /\ [][NextChain]_vars


----------------------------------------------------------------------------
(* BufferedDataSource: releases that nobody holds, and payloads replaced *)

\* mutant: the count is taken down without the assert of line 555
decrement_unchecked_call(ds) == Outcome(decrement_data_ref_count(ds), FALSE)

\* decrement_data_ref_count, lines 553-560, with the assert of line 555: at
\* count 0 the call raises AssertionError before it has changed anything
decrement_data_ref_count_call(ds) ==
    IF ds.data_ref_count > 0
    THEN Outcome(decrement_data_ref_count(ds), FALSE)
    ELSE Outcome(ds, TRUE)

\* any caller calls decrement_data_ref_count on s, whether it holds a count
\* or not, lines 553-560
ReleaseDataRefCount(s) ==
    /\ ~data_sources[s].closed
    /\ OpenHandles(s) = 0
    /\ LET out == decrement_data_ref_count_call(data_sources[s])
       IN  /\ data_sources' = [data_sources EXCEPT
                   ![s] = IF out.raised \/ out.source.held = 0 THEN out.source
                          ELSE [out.source EXCEPT !.held = @ - 1]]
           /\ item_call' = [op |-> "release", source |-> s, raised |-> out.raised,
                            before |-> data_sources[s].data_ref_count]
    /\ UNCHANGED <<binding_vars, extension_vars, commute, groups, computation_vars, data_item_state, handles>>

NextPayload ==
    \/ \E s \in SourceNames, load_ok \in BOOLEAN : IncrementDataRefCount(s, load_ok)
    \/ \E s \in SourceNames : ReleaseDataRefCount(s)
    \/ \E s \in SourceNames : SetDataAndMetadata(s)

SpecPayload == Init /\ [][NextPayload]_vars


----------------------------------------------------------------------------
(* DataItem: the data_item_changes scopes and data_item_content_changed_event *)

MaxScopes == 2          \* deepest nesting of the data_item_changes scopes of one thread
MaxFired == 3           \* most firings of data_item_content_changed_event that are counted

\* what the last call did: whether it closed the outermost scope, whether it
\* fired the event, and whether a change had been notified since the last firing
ContentCall(op, outermost, fired, notified) ==
    [op |-> op, outermost |-> outermost, fired |-> fired, notified |-> notified]

\* begin_data_item_changes, lines 1064-1066
begin_data_item_changes(cc) == [cc EXCEPT !.change_count = @ + 1]

\* end_data_item_changes, lines 1068-1077: nothing clears
\* __data_item_content_changed when the event has fired
end_data_item_changes(cc, op) ==
    LET data_item_change_count == cc.change_count - 1
        data_item_content_changed == cc.content_changed
        fire == data_item_change_count = 0 /\ data_item_content_changed
    IN  [cc EXCEPT !.change_count = data_item_change_count,
                   !.fired = IF fire /\ @ < MaxFired THEN @ + 1 ELSE @,
                   !.notified = IF fire THEN FALSE ELSE @,
                   !.call = ContentCall(op, data_item_change_count = 0, fire, cc.notified)]

\* notify_data_item_content_changed, lines 1147-1150
notify_data_item_content_changed(cc) ==
    end_data_item_changes(
        [begin_data_item_changes(cc) EXCEPT !.content_changed = TRUE, !.notified = TRUE],
        "notify")

UnchangedButContentChanges ==
    UNCHANGED <<binding_vars, commute, groups, item_vars, computation_vars, source_changes,
                threads, lock_threads, cache, downstream, exit_steps, replacing>>

\* DataItemChangeContextManager.__enter__ on thread t, lines 1057-1059
BeginDataItemChanges(t) ==
    /\ content_changes.open[t] < MaxScopes
    /\ content_changes' = [begin_data_item_changes(content_changes) EXCEPT
            !.open[t] = @ + 1,
            !.call = ContentCall("begin", FALSE, FALSE, content_changes.notified)]
    /\ UnchangedButContentChanges

\* DataItemChangeContextManager.__exit__ on thread t, lines 1060-1061
EndDataItemChanges(t) ==
    /\ content_changes.open[t] > 0
    /\ content_changes' = [end_data_item_changes(content_changes, "end") EXCEPT
            !.open[t] = @ - 1]
    /\ UnchangedButContentChanges

\* a change of the item's content is reported, lines 1147-1150
NotifyDataItemContentChanged ==
    /\ content_changes' = notify_data_item_content_changed(content_changes)
    /\ UnchangedButContentChanges

NextContent ==
    \/ \E t \in Threads : BeginDataItemChanges(t)
    \/ \E t \in Threads : EndDataItemChanges(t)
    \/ NotifyDataItemContentChanged

SpecContent == Init /\ [][NextContent]_vars


----------------------------------------------------------------------------
(* A payload replaced on one thread while another acquires and releases *)

\* the replacing thread has run line 388 of __set_data_metadata_direct: the
\* assignment is made outside the ref count mutex
ReplaceAssign(s) ==
    /\ s \notin replacing
    /\ data_sources[s].attached
    /\ Len(FreshWrites(data_item_state).writes) < MaxChanges
    /\ data_sources' = [data_sources EXCEPT ![s] = install_payload(@)]
    /\ replacing' = replacing \cup {s}
    /\ item_call' = [ItemCall("set_data_assign") EXCEPT !.source = s]
    /\ UNCHANGED <<binding_vars, source_changes, threads, lock_threads, cache, downstream,
                   exit_steps, content_changes, commute, groups, computation_vars,
                   data_item_state, handles>>

\* the replacing thread goes on: lines 389-402 and 420-424
ReplaceCredit(s) ==
    /\ s \in replacing
    /\ data_sources' = [data_sources EXCEPT
            ![s] = [add_data_ref_count(@) EXCEPT !.unloadable = data_item_state.context]]
    /\ replacing' = replacing \ {s}
    /\ LET fresh == FreshWrites(data_item_state)
           written == IF set_data_writes(fresh)
                      THEN WriteCall(fresh, "rewrite_data_item_data") ELSE fresh
       IN  data_item_state' = data_item_changed(written, "data")
    /\ item_call' = [ItemCall("set_data") EXCEPT !.source = s]
    /\ UNCHANGED <<binding_vars, source_changes, threads, lock_threads, cache, downstream,
                   exit_steps, content_changes, commute, groups, computation_vars, handles>>

NextReplace ==
    \/ \E s \in SourceNames, load_ok \in BOOLEAN : IncrementDataRefCount(s, load_ok)
    \/ \E s \in SourceNames : ReleaseDataRefCount(s)
    \/ \E s \in SourceNames : ReplaceAssign(s)
    \/ \E s \in SourceNames : ReplaceCredit(s)

SpecReplace == Init /\ [][NextReplace]_vars


----------------------------------------------------------------------------
(* A DataItemsFilterBinding created on a Binding that is in use *)

\* the filter binding is closed, lines 161-164, and a new one, with a new
\* listener, is created on the upstream Binding as it is, lines 154-159
CreateFilterBinding ==
    /\ WriterIdle /\ DownstreamIdle
    /\ downstream' = NoDownstream
    /\ UNCHANGED <<data_items, settle, events, mirror, callback_ok>>
    /\ UnchangedButChain

NextLateChain ==
    \/ NextChain
    \/ CreateFilterBinding

SpecLateChain == Init /\ [][NextLateChain]_vars


----------------------------------------------------------------------------
(* The storage cache given to the item while it is in use *)

\* DataItem.set_storage_cache, lines 935-938: a new SuspendableCache around the
\* external store takes the place of the one the item had; it is not suspended
\* and shadows nothing
set_storage_cache(c) ==
    [NoCache EXCEPT !.store = c.store, !.latest = c.latest, !.frozen = c.frozen,
                    !.call = [NoCacheCall EXCEPT !.op = "set_storage_cache"]]

\* the document gives the item its storage cache, lines 935-938
SetStorageCache ==
    /\ cache' = set_storage_cache(cache)
    /\ UNCHANGED <<binding_vars, source_changes, threads, lock_threads, lifecycle_vars, downstream,
                   commute, groups, item_vars, computation_vars>>

NextCacheSet ==
    \/ NextCache
    \/ SetStorageCache

SpecCacheSet == Init /\ [][NextCacheSet]_vars


----------------------------------------------------------------------------
(* A Binding whose aggregate holds an item and one of its dependents *)

NextDuplicate ==
    \/ \E item \in DuplicateItems \cup {"A"} : UpdateCountedDataItems(item)
    \/ \E item \in DuplicateItems \cup {"A"} : SubtractCountedDataItems(item)
    \/ \E f \in Filters : SetFilter(f)
    \/ \E s \in Sorts : SetSort(s)
    \/ SettleStep
    \/ SettleReturn

SpecDuplicate == Init /\ [][NextDuplicate]_vars

----------------------------------------------------------------------------
(* Properties *)

Range(s) == {s[i] : i \in 1..Len(s)}

\* a pass has run to the end of the loop and still holds the mutex
PassDone == settle.pc = "L150"

\* every call has settled and no change scope is open
Settled == settle.pc = "none" /\ change_level = 0

\* a before b in the order the current sort asks for; ties and "no sort" fall
\* back on the order of the aggregate's keys
InSortOrder(a, b) ==
    LET ka == sort_key(sort, a)
        kb == sort_key(sort, b)
        by_keys == IndexOf(counted_data_items.keys, a) < IndexOf(counted_data_items.keys, b)
    IN  IF sort = None THEN by_keys
        ELSE IF sort_reverse(sort) THEN ka > kb \/ (ka = kb /\ by_keys)
        ELSE ka < kb \/ (ka = kb /\ by_keys)

RECURSIVE WithDependents(_)
WithDependents(masters) ==
    IF masters = <<>> THEN <<>>
    ELSE <<Head(masters)>> \o get_flat_data_item_generator_in_container(Head(masters))
         \o WithDependents(Tail(masters))

\* the list is the one the current aggregate, filter and sort imply
IsDerivedList(list) ==
    LET masters == SelectSeq(list, has_master_data)
    IN  /\ Range(masters) = {x \in Range(counted_data_items.keys) :
                               /\ has_master_data(x)
                               /\ (filter = None \/ filter_accepts(filter, x))}
        /\ NoDuplicates(masters)
        /\ \A i, j \in 1..Len(masters) : i < j => InSortOrder(masters[i], masters[j])
        /\ list = WithDependents(masters)

\* C1: after every settle pass that runs at change level 0 (whatever call began
\* it), the authoritative list is the list derived from the current aggregate,
\* filter and sort: the keys with master data, in sort order, those the filter
\* accepts, each followed by its dependents.
C1_SettledListIsDerived ==
    (PassDone \/ Settled) =>
        /\ IsDerivedList(data_items)
        /\ data_items = proposed_data_items(counted_data_items, filter, sort)

\* a pass begun by the outermost end_change has produced a sorted, filtered
\* list with a dependent, from an aggregate holding a filtered item and an item
\* without master data
C1_Witness ==
    /\ PassDone
    /\ settle.trigger = "end_change"
    /\ events # <<>>
    /\ filter = "exclude_C"
    /\ sort = "sort_by_date_desc"
    /\ {"C", "D", "P"} \subseteq Range(counted_data_items.keys)
    /\ data_items = <<"P", "D">>

\* C2: a listener that applies every callback to its own list is always given
\* an index its list can take (a remove names the item found at that index),
\* holds the authoritative list after every event, and holds the target list
\* at the end of the pass.
C2_ListenerMirrorsList ==
    /\ callback_ok
    /\ mirror = data_items
    /\ PassDone => mirror = settle.new

C2_Witness ==
    /\ PassDone
    /\ Len(events) >= 3
    /\ \E i, j \in 1..Len(events) : events[i].op = "remove" /\ events[j].op = "insert"
    /\ mirror = settle.new
    /\ mirror # settle.start

\* C3: the authoritative list never holds an item twice, between two events of
\* a pass as well as between passes.
C3_NoDuplicates == NoDuplicates(data_items)

\* between the remove and the insert of a move
C3_Witness == settle.pc = "L130" /\ Len(data_items) >= 2

\* C4: a pass whose target list equals the authoritative list emits no event
\* and leaves the list as it is.
C4_NoChangeNoEvents ==
    (settle.pc # "none" /\ settle.new = settle.start) =>
        (events = <<>> /\ data_items = settle.start)

\* a redundant add of the filtered item C, whose count was already positive
C4_Witness ==
    /\ PassDone
    /\ settle.trigger = "delta"
    /\ settle.new = settle.start
    /\ events = <<>>
    /\ filter = "exclude_C"
    /\ counted_data_items.count["C"] = 2
    /\ data_items = <<"A">>

\* position k of the new list holds the one item the old list lacks
SingleInsertionAt(k) ==
    /\ k \in 1..Len(settle.new)
    /\ ~InSeq(settle.new[k], settle.start)
    /\ DelAt(settle.new, k - 1) = settle.start

\* C5: when the target list is the old list with one new item inserted, the
\* pass emits one insert, of that item at its target index, and no remove.
C5_SingleInsertion ==
    PassDone =>
        \A k \in 1..Len(settle.new) :
            SingleInsertionAt(k) => events = <<Event("insert", settle.new[k], k - 1)>>

\* an insertion in the middle of the list
C5_Witness ==
    /\ PassDone
    /\ \E k \in 2..(Len(settle.new) - 1) : SingleInsertionAt(k)

\* a sort change has turned [A,B,C] into [B,A,C]
MoveScenario ==
    /\ PassDone
    /\ settle.trigger = "sort"
    /\ settle.start = <<"A", "B", "C">>
    /\ settle.new = <<"B", "A", "C">>

\* C6 as stated: the pass emits remove(A,0) then insert(A,1)
C6_AsStated ==
    MoveScenario =>
        /\ events = <<Event("remove", "A", 0), Event("insert", "A", 1)>>
        /\ data_items = <<"B", "A", "C">>

\* C6: from [A,B,C] to [B,A,C] the pass moves B, the item of target position
\* 0: it emits remove(B,1) then insert(B,0), leaves [B,A,C] and emits no event
\* for A or C.
C6_MoveCorrectness ==
    MoveScenario =>
        /\ events = <<Event("remove", "B", 1), Event("insert", "B", 0)>>
        /\ data_items = <<"B", "A", "C">>

C6_Witness == MoveScenario /\ Len(events) = 2

\* C7: while a change scope is open no pass runs and no event is emitted; a
\* pass begins only in a step that leaves the level at 0, and the end_change
\* that returns the level to 0 begins one.
C7_BatchingCoalesces ==
    [][ /\ (change_level > 0 /\ change_level' > 0) =>
              (settle' = NoSettle /\ UNCHANGED <<data_items, mirror, events>>)
        /\ (settle.pc = "none" /\ settle'.pc # "none") => change_level' = 0
        /\ (change_level > 0 /\ change_level' = 0) =>
              (settle.pc = "none" /\ settle'.pc = "L111"
               /\ settle'.trigger = "end_change")
      ]_vars

\* one pass for a scope entered with an empty list in which A was added twice
\* and P once
C7_Witness ==
    /\ PassDone
    /\ settle.trigger = "end_change"
    /\ settle.start = <<>>
    /\ counted_data_items.count["A"] = 2
    /\ counted_data_items.count["P"] = 1
    /\ Len(events) = 3

\* C8: leaving a "with changes()" block, by the end of its body or by an
\* exception, restores the change level found on entry; with no block open
\* the level is 0.
C8_ScopeRestoresLevel ==
    /\ [][Len(scopes') < Len(scopes) => change_level' = scopes[Len(scopes)]]_vars
    /\ [](scopes = <<>> => change_level = 0)

\* the outermost block was left by an exception and the pass of its end_change
\* has run
C8_Witness == exc /\ PassDone /\ change_level = 0 /\ settle.trigger = "end_change"

\* C9: a list read on another thread is never the list between two events of
\* a pass, and emptying the list that was returned leaves the authoritative
\* list as it is.
C9_ReaderGetsSettledCopy ==
    /\ [](~snapshot.mid)
    /\ [][(snapshot.taken /\ ~snapshot'.taken) => data_items' = data_items]_vars

\* the reader holds a list while a pass has already changed the Binding's
C9_Witness ==
    /\ snapshot.taken
    /\ settle.pc = "L130"
    /\ snapshot.list # data_items
    /\ snapshot.list = settle.start

NetCount(x) ==
    LET signed(i) == IF commute.deltas[i].op = "update" THEN commute.deltas[i].delta.count[x]
                     ELSE 0 - commute.deltas[i].delta.count[x]
    IN  signed(1) + signed(2) + signed(3)

CommuteDone == commute.done = 3 /\ Len(commute.deltas) = 3

\* C11 as stated: whatever the two orders, the two aggregates end up equal
C11_AsStated ==
    CommuteDone => commute.first.count = commute.second.count

\* C11: deltas commute as long as no subtract takes more than the aggregate
\* holds when it arrives: two orders of the same deltas in which every
\* subtract is covered end in the same aggregate, the adds less the subtracts.
C11_CoveredDeltasCommute ==
    (CommuteDone /\ ~commute.first_clamped /\ ~commute.second_clamped) =>
        /\ commute.first.count = commute.second.count
        /\ Range(commute.first.keys) = Range(commute.second.keys)
        /\ \A x \in Items : commute.first.count[x] = NetCount(x)

\* two adds and a subtract of the same item, taken in two different orders
C11_Witness ==
    /\ CommuteDone
    /\ ~commute.first_clamped /\ ~commute.second_clamped
    /\ commute.order = <<2, 3, 1>>
    /\ commute.deltas[1].op = "update" /\ commute.deltas[2].op = "update"
    /\ commute.deltas[3].op = "subtract"
    /\ commute.first.count["A"] = 1

\* the counts of x a group should hold: its own items and its children's aggregates
OwnCount(g, x) == IF InSeq(x, groups[g].display_items) THEN 1 ELSE 0

ChildrenCount(g, x) ==
    SeqSum(groups[g].data_groups,
           [c \in GroupNames |-> groups[c].counted_display_items.count[x]])

\* C12 as stated: every group's aggregate is the sum of its own items and of
\* the aggregates of its current child groups.
C12_AsStated ==
    \A g \in GroupNames : \A x \in DisplayItems :
        groups[g].counted_display_items.count[x] = OwnCount(g, x) + ChildrenCount(g, x)

C14_DataRefRestoresCount ==
    [][(Len(handles') > Len(handles) =>
            data_sources'[handles'[Len(handles')].source].data_ref_count
                = handles'[Len(handles')].before + 1)
       /\
       (Len(handles') < Len(handles) =>
            data_sources'[handles[Len(handles)].source].data_ref_count
                = handles[Len(handles)].before)]_vars

\* a block left by an exception, the count back at its value before the block
C14_Witness ==
    /\ item_call.op = "exit" /\ item_call.raised
    /\ data_sources[item_call.source].data_ref_count = item_call.before

\* C20 as stated: an acquire from count 0 whose load failed leaves the count
\* at 0 and the payload unloaded, so that the next acquire loads again.
C20_AsStated ==
    (item_call.op \in {"increment", "enter"} /\ item_call.raised /\ item_call.before = 0) =>
        /\ data_sources[item_call.source].data_ref_count = 0
        /\ ~is_data_loaded(data_sources[item_call.source])

Calls(call, in_transaction) ==
    Cardinality({i \in 1..Len(data_item_state.writes) :
                    /\ data_item_state.writes[i].call = call
                    /\ data_item_state.writes[i].in_transaction = in_transaction})

\* the transaction of an item with a context has just been left
ExitedWithContext == item_call.op = "exit_transaction" /\ data_item_state.context

\* C16 as stated: property changes in a transaction give exactly one
\* rewrite of the properties, made at the exit, and none without a change.
C16_AsStated ==
    ExitedWithContext =>
        /\ Calls("rewrite_data_item_properties", TRUE) = 0
        /\ Calls("rewrite_data_item_properties", FALSE) =
               IF data_item_state.changes.property >= 1 THEN 1 ELSE 0

\* C16: for an item already written, one or more property changes in a
\* transaction give exactly one rewrite of the properties, at the exit, and
\* no change gives none; an item whose first write is pending gets one
\* write_data_item at the exit and no rewrite of the properties.
C16_OneRewriteOrOneWrite ==
    ExitedWithContext =>
        /\ Calls("rewrite_data_item_properties", TRUE) = 0
        /\ Calls("write_data_item", TRUE) = 0
        /\ IF Calls("write_data_item", FALSE) > 0
           THEN /\ Calls("write_data_item", FALSE) = 1
                /\ Calls("rewrite_data_item_properties", FALSE) = 0
           ELSE Calls("rewrite_data_item_properties", FALSE) =
                    IF data_item_state.changes.property >= 1 THEN 1 ELSE 0

\* two property changes in the transaction of a written item, one rewrite at the exit
C16_Witness ==
    /\ ExitedWithContext
    /\ data_item_state.changes.property = 2
    /\ Calls("write_data_item", FALSE) = 0
    /\ Calls("rewrite_data_item_properties", FALSE) = 1

\* C17 as stated: no call on the persistent storage is made between the
\* entry and the exit of a transaction.
C17_AsStated ==
    \A i \in 1..Len(data_item_state.writes) : ~data_item_state.writes[i].in_transaction

\* C18 as stated: the exit rewrites the data only if the payload changed
\* during the transaction.
C18_AsStated ==
    (ExitedWithContext /\ Calls("rewrite_data_item_data", FALSE) > 0) =>
        data_item_state.changes.data

\* C19: a failing evaluation does not raise, returns no payload and leaves a
\* non-empty error text, and the computed item keeps the payload it had; the
\* next successful evaluation clears the error text and the computed item
\* holds the newly computed payload.
C19_EvaluationErrorRecovers ==
    \A k \in ComputationNames :
        LET c == computations[k]
        IN  /\ (c.op \in {"evaluate", "recompute"} /\ ~c.valid) =>
                    /\ ~c.raised
                    /\ c.result = <<>>
                    /\ c.error_text # None
                    /\ c.data = c.before
            /\ (c.op = "recompute" /\ c.valid) =>
                    /\ c.error_text = None
                    /\ c.data = c.generation
            /\ c.error_text # None => c.data < c.generation

\* a recomputation that succeeded after an error, over a payload computed earlier
C19_Witness ==
    /\ computations["K1"].op = "recompute" /\ computations["K1"].valid
    /\ computations["K1"].had_error
    /\ computations["K1"].before > 0
    /\ computations["K1"].data = 3


\* the proposed list of the pass is the list the pass started from with some
\* items deleted and the survivors in unchanged order
OnlyDeletions ==
    /\ settle.new = SelectSeq(settle.start, LAMBDA x : InSeq(x, settle.new))
    /\ Len(settle.new) < Len(settle.start)

\* C28: before the item for position i is placed, every old item at position i
\* that is absent from the new list is removed, one after the other; so a pass
\* whose new list is the old list with some items deleted emits exactly one
\* remove per deleted item and no insert.
C28_AsStated ==
    (PassDone /\ OnlyDeletions) =>
        /\ \A k \in 1..Len(events) : events[k].op = "remove"
        /\ Len(events) = Len(settle.start) - Len(settle.new)

\* the first i positions of the working list are the first i positions of the
\* new list
PlacedPrefixMatches ==
    /\ settle.index <= Len(settle.old)
    /\ settle.index <= Len(settle.new)
    /\ SubSeq(settle.old, 1, settle.index) = SubSeq(settle.new, 1, settle.index)

\* C29: in a pass over duplicate-free lists the item for position i, when it is
\* in the remaining old list, is found at old_index >= i, since the first i
\* positions of the working list already are those of the new list; the
\* assertion of line 121 does not fail and the pass is not aborted.
C29_OldIndexNotBelowIndex ==
    /\ settle.pc # "abort"
    /\ settle.pc \in {"L111", "L119", "L130", "L143", "L150"} =>
            /\ PlacedPrefixMatches
            /\ NoDuplicates(settle.old) /\ NoDuplicates(settle.new)
    /\ (settle.pc = "L119" /\ InSeq(settle.new[settle.index + 1], settle.old)) =>
            settle.index <= IndexOf(settle.old, settle.new[settle.index + 1])

\* at a position after the first, the item to place is further down the old list
C29_Witness ==
    /\ settle.pc = "L119"
    /\ settle.index > 0
    /\ InSeq(settle.new[settle.index + 1], settle.old)
    /\ settle.index < IndexOf(settle.old, settle.new[settle.index + 1])


\* C27: with no sort set on a container Binding, after any insertions and
\* removals in the container, the settled list holds the container's items
\* (those the filter accepts) in the container's definition order.
C27_AsStated ==
    (Settled /\ ~exc /\ sort = None) =>
        data_items = SelectSeq(container_data_items,
                               LAMBDA x : filter = None \/ filter_accepts(filter, x))


\* C21: a _begin_changes or _end_changes made by a thread other than the one
\* that opened the outermost scope, while that scope is open, is aborted with
\* a defect signal and leaves the change count as it was.
C21_AsStated ==
    (source_changes.call.op \in {"begin", "end"} /\ source_changes.call.misuse) =>
        /\ source_changes.call.raised
        /\ source_changes.change_count = source_changes.call.before


\* C26: while the cache is suspended a read returns the value last written to
\* the key, from the shadow or else from the external store, and the external
\* store is not written; after the spill the external store holds the last
\* suspended write of every key written during the suspension, the shadow is
\* empty, and the writes that follow go to the external store.
C26_SuspendedWritesSpill ==
    /\ cache.suspended = data_item_state.in_transaction_state
    /\ cache.call.op = "read" => cache.call.value = cache.latest[cache.call.key]
    /\ cache.suspended => cache.store = cache.frozen
    /\ cache.call.op = "spill" =>
            \A k \in cache.call.spilled : cache.store[k] = cache.latest[k]
    /\ ~cache.suspended =>
            /\ \A k \in Keys : cache.shadow[k] = 0
            /\ cache.store = cache.latest

\* a spill of writes to both keys over an external store that held other values
C26_Witness ==
    /\ cache.call.op = "spill"
    /\ cache.call.spilled = Keys
    /\ \A k \in Keys : cache.frozen[k] # 0 /\ cache.frozen[k] # cache.store[k]


\* no thread is inside a call on the Binding
ThreadsIdle == \A t \in Threads : ThreadAt(t, "idle")

\* the change scopes the threads have open
RECURSIVE OpenScopes(_)
OpenScopes(ts) ==
    IF ts = {} THEN 0
    ELSE LET t == CHOOSE x \in ts : TRUE IN threads[t].depth + OpenScopes(ts \ {t})

\* C22: for every interleaving of two threads that run balanced begin_change /
\* end_change pairs on one Binding no increment or decrement of the change
\* level is lost: between the calls the level is the number of open scopes, it
\* is 0 once all scopes are left, and the settle of an end_change is triggered
\* only by the exit whose own decrement brought the level to 0.
C22_AsStated ==
    /\ ThreadsIdle => change_level = OpenScopes(Threads)
    /\ \A t \in Threads :
            (ThreadAt(t, "U_check") /\ threads[t].op = "end_change") => threads[t].local = 0

\* the threads that run a settle pass
Settling == {t \in Threads : ThreadAt(t, "U_run")}

\* C23: the settle passes of one Binding do not interleave: at most one thread
\* runs a pass, it holds the mutex from building the lists until its last
\* callback has returned, only that pass changes the authoritative list and
\* calls the listener, and no delta reaches the master aggregate while a pass
\* runs.
C23_SettlePassesSerialized ==
    /\ [](/\ Cardinality(Settling) <= 1
          /\ \A t \in Settling : update_mutex = t)
    /\ [][(data_items' # data_items \/ mirror' # mirror) =>
            \E t \in Threads : /\ Settling = {t}
                               /\ update_mutex = t
                               /\ threads'[t].pass # threads[t].pass]_vars
    /\ [][(counted_data_items' # counted_data_items \/ filter' # filter) =>
            Settling = {}]_vars

\* a pass has sent an event and has more to do while the other thread, past
\* its level check after a delta, waits for the mutex
C23_Witness ==
    /\ ThreadAt("T1", "U_run") /\ threads["T1"].emitted > 0
    /\ threads["T1"].pass.pc \in {"L111", "L119", "L130", "L143"}
    /\ ThreadAt("T2", "U_lock") /\ threads["T2"].op = "delta"

\* C30: while a thread has a change scope open on the Binding (change level
\* above 0), no settle pass started by another thread's set_filter, set_sort
\* or delta sends an event to the listeners.
C30_AsStated ==
    [][\A t \in Threads :
            threads'[t].emitted > threads[t].emitted =>
                ~(/\ change_level > 0
                  /\ \E u \in Threads \ {t} : threads[u].depth > 0 /\ ThreadAt(u, "idle"))]_vars


\* each of two threads waits for a lock the other holds
LockCycle ==
    \E t, u \in Threads :
        /\ t # u
        /\ lock_threads[t].wants \in lock_threads[u].held
        /\ lock_threads[u].wants \in lock_threads[t].held

\* C25: the Binding mutex and the ref count mutex are never taken in inverted
\* order: no thread that holds a ref count mutex waits for a Binding mutex, so
\* settle passes and acquire / release calls never wait for each other in a
\* cycle.
C25_RefCountMutexInnermost ==
    /\ \A t \in Threads :
            "ref" \in lock_threads[t].held => lock_threads[t].wants # "binding"
    /\ ~LockCycle
    /\ data_sources["S1"].data_ref_count
            = lock_threads["T1"].acquired + lock_threads["T2"].acquired

\* a pass that holds the Binding mutex waits for the ref count mutex, which the
\* other thread holds
C25_Witness ==
    /\ lock_threads["T1"].pc = "ref_wait" /\ "binding" \in lock_threads["T1"].held
    /\ lock_threads["T2"].pc = "in_ref" /\ lock_threads["T2"].context = "idle"


\* the list of the filter binding is the upstream list without the items its
\* filter rejects
DownstreamConsistent ==
    downstream.data_items =
        SelectSeq(data_items,
                  LAMBDA x : downstream.filter = None \/ filter_accepts(downstream.filter, x))

\* the upstream call has returned and no call on the filter binding is running
ChainAtRest == settle.pc = "none" /\ ~exc /\ DownstreamIdle

C31_ReleaseAtZeroRaises ==
    /\ [](\A s \in SourceNames : data_sources[s].data_ref_count >= 0)
    /\ [][\A s \in SourceNames :
            (item_call'.op = "release" /\ item_call'.source = s
                /\ data_sources[s].data_ref_count = 0) =>
            (item_call'.raised /\ data_sources'[s] = data_sources[s])]_vars

\* a release at count 0 has raised, the payload in memory is still there
C31_Witness ==
    /\ item_call.op = "release" /\ item_call.raised /\ item_call.before = 0
    /\ data_sources[item_call.source].data_ref_count = 0
    /\ data_sources[item_call.source].payload = "valid"


\* C32: an acquire asks the payload to load only when the ref count was 0
\* before the increment: every acquire adds 1 to the count, it calls the
\* payload's increment (the load request) exactly when it takes the count
\* from 0 to 1, and a payload enters memory by an acquire only from count 0;
\* so there are as many load requests as 0-to-1 transitions, whoever calls.
C32_LoadOnlyFromZero ==
    [][\A s \in SourceNames :
        (item_call'.op = "increment" /\ item_call'.source = s) =>
            LET before == data_sources[s]
                after == data_sources'[s]
            IN  /\ after.data_ref_count = before.data_ref_count + 1
                /\ (after.dam_ref_count = before.dam_ref_count + 1)
                        <=> (before.data_ref_count = 0)
                /\ (after.dam_ref_count # before.dam_ref_count)
                        => (before.data_ref_count = 0)
                /\ (before.payload = "unloaded" /\ after.payload = "valid")
                        => (before.data_ref_count = 0)]_vars

\* an acquire at count 2 that has asked for no load: the payload, loaded by
\* the first acquire, still has the one count it got then
C32_Witness ==
    /\ item_call.op = "increment" /\ item_call.before = 2 /\ ~item_call.raised
    /\ data_sources[item_call.source].data_ref_count = 3
    /\ data_sources[item_call.source].dam_ref_count = 1
    /\ is_data_loaded(data_sources[item_call.source])


EventsOf(x, op) == {k \in 1..Len(events) : events[k].item = x /\ events[k].op = op}

\* C34: in one settle pass over duplicate-free lists every item gets a bounded
\* number of events: an item of the old list only gets one remove and no
\* insert, an item of the new list only gets one insert and no remove, an item
\* of both gets nothing or one remove with one insert of the same item right
\* after it, an item of neither gets nothing; the pass ends after at most one
\* remove per old item and one remove and one insert per new item.
C34_BoundedEventsPerItem ==
    (settle.pc \notin {"none", "abort"}) =>
        /\ Len(events) <= Len(settle.start) + 2 * Len(settle.new)
        /\ \A x \in Items :
            LET rem == EventsOf(x, "remove")
                ins == EventsOf(x, "insert")
                in_old == InSeq(x, settle.start)
                in_new == InSeq(x, settle.new)
            IN  /\ Cardinality(rem) <= 1
                /\ Cardinality(ins) <= 1
                /\ (in_old /\ ~in_new) => (ins = {} /\ (PassDone => rem # {}))
                /\ (~in_old /\ in_new) => (rem = {} /\ (PassDone => ins # {}))
                /\ (~in_old /\ ~in_new) => (rem = {} /\ ins = {})
                /\ (in_old /\ in_new) =>
                        /\ \A k \in rem : k < Len(events) => (k + 1) \in ins
                        /\ \A k \in ins : (k - 1) \in rem
                        /\ PassDone => (rem = {} <=> ins = {})

\* a finished pass that removed an old item, inserted a new one and moved a
\* third with a remove and an insert next to each other
C34_Witness ==
    /\ PassDone
    /\ \E x \in Items : ~InSeq(x, settle.new) /\ EventsOf(x, "remove") # {}
    /\ \E x \in Items : ~InSeq(x, settle.start) /\ EventsOf(x, "insert") # {}
    /\ \E x \in Items : InSeq(x, settle.start) /\ \E k \in EventsOf(x, "remove") :
            (k + 1) \in EventsOf(x, "insert")


\* C35 as stated: data_item_content_changed_event fires at the exit of the
\* outermost data_item_changes scope only if a content change was notified
\* since the event last fired; an outermost scope in which nothing changed
\* fires no event.
C35_AsStated ==
    content_changes.call.fired =>
        (content_changes.call.outermost /\ content_changes.call.notified)


\* C36 as stated: the count credited to the current payload object of a data
\* source is 0 exactly when the data source's own ref count is 0, after any
\* sequence of acquires, releases and payload replacements, also when the
\* payload is replaced at a ref count of 2 or more.
C36_AsStated ==
    \A s \in SourceNames :
        (data_sources[s].dam_ref_count = 0) <=> (data_sources[s].data_ref_count = 0)


\* C37 as stated: replacing the payload is atomic with respect to the ref
\* counting: in every interleaving of set_data_and_metadata on one thread with
\* acquires and releases on another, the count of the new payload object is
\* never below 0, and once the replacement is complete it is 0 exactly when
\* the data source's ref count is 0.
C37_AsStated ==
    \A s \in SourceNames :
        /\ data_sources[s].dam_ref_count >= 0
        /\ s \notin replacing =>
                ((data_sources[s].dam_ref_count = 0) <=> (data_sources[s].data_ref_count = 0))


\* C38 as stated: for a filter binding created on an upstream Binding in any
\* state, empty or holding items, once an upstream pass has delivered its
\* events the master list of the filter binding equals the upstream list, no
\* callback has failed, and each data_item_removed(item, index) found the item
\* at that index of the master list.
C38_AsStated ==
    /\ (PassDone /\ events # <<>> /\ DownstreamIdle) =>
            downstream.master_data_items = data_items
    /\ downstream.settle.pc # "abort"
    /\ settle.pc # "abort"


\* C39 as stated: the storage cache of an item is suspended whenever the item
\* is in transaction state and is not suspended whenever it is not, in whatever
\* order set_storage_cache, _enter_transaction_state and
\* _exit_transaction_state are called.
C39_AsStated == data_item_state.in_transaction_state <=> cache.suspended


\* the list that _update_data_items builds holds an item twice
ProposalHasDuplicate ==
    ~NoDuplicates(proposed_data_items(counted_data_items, filter, sort))

\* C40: when a uniqueness check of _update_data_items fails, here for a
\* dependent that is also a master item, the pass is left by the failed
\* assertion before any listener callback has been called and before the
\* authoritative list has been changed; no pass runs its loop on such lists.
C40_AbortBeforeCallbacks ==
    (settle.pc # "none" /\ ProposalHasDuplicate) =>
        /\ settle.pc = "abort"
        /\ events = <<>>
        /\ settle.index = 0
        /\ data_items = settle.start
        /\ mirror = settle.start

\* the aggregate holds Q and its dependent M, the pass has failed its check
\* and the list still holds what it held before
C40_Witness ==
    /\ settle.pc = "abort"
    /\ ProposalHasDuplicate
    /\ InSeq("Q", counted_data_items.keys) /\ InSeq("M", counted_data_items.keys)
    /\ data_items # <<>>
    /\ data_items = settle.start
    /\ events = <<>>

============================================================================
